---- MODULE Spec2Model ----
(***************************************************************************)
(* Convos invite middleware: the signed-invite pipeline and the DM         *)
(* classification state machine of ConvosMiddleware, on top of an abstract *)
(* messaging substrate (conversations, contacts, DM sends).                *)
(*                                                                         *)
(* Byte strings are sequences of protobuf fields <<fieldNo, value>>; a DM  *)
(* text is described by what the code observes of it: whether its trimmed  *)
(* length reaches 50, whether it consists of slug characters only, and the *)
(* bytes its base64url decoding yields.  Cryptography is symbolic: a       *)
(* signature records the key and the hash it was made over, an AEAD token  *)
(* records the derived key, the AAD and the plaintext.                     *)
(***************************************************************************)
EXTENDS Integers, Sequences, FiniteSets, Bags, TLC

\* ------------------------------------------------------------------ bounds
\* the clock runs from 1 to MaxTime
MaxTime == 2
\* registrations the handler list holds at most
MaxHandlers == 2
\* accept() and reject() calls the handlers make in one delivery
MaxOps == 2

\* ------------------------------------------------------- fixed small sets
SelfInbox == "aa"
OtherCreator == "cc"
Joiner == "b1"
Inboxes == {SelfInbox, OtherCreator, Joiner}
Senders == {SelfInbox, Joiner}
SelfKey == "k1"
OtherKey == "k2"
PrivateKeys == {SelfKey, OtherKey}
KnownConv == "c1"
UnknownConv == "c2"
ConvIds == {KnownConv, UnknownConv}
Tags == {"t1", "t2"}
\* the tag of a payload that carries none
NoTag == ""
Handlers == {"h1", "h2"}
\* an absent Date option / an undefined bigint field
NoDate == -1
\* expiry instants an invite is minted with
ExpiryChoices == {NoDate, 1}

\* ------------------------------------------------------------ exceptions
Ok(v) == [ok |-> TRUE, val |-> v]
Threw == [ok |-> FALSE]

\* ------------------------------------------------------------ byte model
EmptyBytes == << >>
\* a byte string the protobuf reader cannot walk (invalid wire type,
\* truncated varint)
GarbageBytes == << <<0, "bad">> >>

WellFormed(bytes) == \A i \in 1..Len(bytes) : bytes[i][1] > 0

HasField(bytes, n) == \E i \in 1..Len(bytes) : bytes[i][1] = n

\* last occurrence wins, as in protobuf
FieldOf(bytes, n, default) ==
  IF HasField(bytes, n)
  THEN LET i == CHOOSE j \in 1..Len(bytes) :
                  /\ bytes[j][1] = n
                  /\ \A k \in (j+1)..Len(bytes) : bytes[k][1] # n
       IN bytes[i][2]
  ELSE default

\* ----------------------------------------------------------- compression
COMPRESSION_MARKER == 120
MAX_DECOMPRESSED_SIZE == 1048576
MIN_SIZE_FOR_COMPRESSION == 100

\* Bytes that are no message of this model are one item <<first byte, shape>>.
\* The shape records their length, the length pako.deflate makes of them, and
\* what pako.inflate makes of the bytes after the first one: a throw when
\* these are no zlib stream, the inflated bytes when they are.
RawBytes(first, length, deflated, inflated) ==
  << <<first, [length |-> length, deflated |-> deflated, inflated |-> inflated]>> >>
IsRaw(data) == Len(data) = 1 /\ data[1][1] \notin 1..15

\* The messages of this model carry ciphertext, hashes and a signature and
\* no free text: deflate does not shorten them, whatever their length.
length(data) ==
  IF data = EmptyBytes THEN 0
  ELSE IF IsRaw(data) THEN data[1][2].length
  ELSE MIN_SIZE_FOR_COMPRESSION

compressIfSmaller(data) ==
  IF length(data) < MIN_SIZE_FOR_COMPRESSION THEN data
  ELSE LET compressed == IF IsRaw(data) THEN data[1][2].deflated ELSE length(data)
       IN IF compressed + 1 < length(data)
          THEN RawBytes(COMPRESSION_MARKER, compressed + 1, compressed + 1, Ok(data))
          ELSE data

decompress(data) ==
  IF Len(data) = 0 \/ data[1][1] # COMPRESSION_MARKER THEN Ok(data)
  ELSE LET decompressed == data[1][2].inflated
       IN IF ~decompressed.ok THEN Threw
          ELSE IF length(decompressed.val) > MAX_DECOMPRESSED_SIZE THEN Threw
          ELSE decompressed

\* ------------------------------------------------------------------- hex
\* parseInt reads both cases of a hex digit, so the upper-case spelling of an
\* id yields the bytes of the lower-case one; every id here has even length
UpperInbox == "AA"
lowerHex(hex) == IF hex = UpperInbox THEN "aa" ELSE hex
hexToBytes(hex) == <<"x", lowerHex(hex)>>
bytesToHex(bytes) == IF bytes = EmptyBytes THEN "" ELSE bytes[2]

\* ------------------------------------------------------------ secp256k1
\* a key the curve library refuses: wrong length, zero, not below the order
InvalidKey == "k0"
getPublicKey(privateKey) ==
  IF privateKey = InvalidKey THEN Threw ELSE Ok(<<"pub", privateKey>>)
hashSha256(data) == <<"sha256", data>>
signWithRecovery(messageHash, privateKey) ==
  [len |-> 65, v |-> 0, hash |-> messageHash, key |-> privateKey]

\* a signature of the wrong length or with recovery byte above 3 throws;
\* otherwise recovery yields the signer's key when the hash is the signed
\* one, and some unrelated curve point when it is not
recoverPublicKey(messageHash, signature) ==
  IF signature = EmptyBytes THEN Threw
  ELSE IF signature.len # 65 \/ signature.v > 3 THEN Threw
  ELSE IF signature.hash = messageHash THEN getPublicKey(signature.key)
  ELSE Ok(<<"pub", "unrelated">>)

\* ------------------------------------------------------ conversation token
FORMAT_VERSION == 1
TYPE_UUID == 1
TYPE_STRING == 2

\* conversation ids beside those of groups: the empty string, a UUID written
\* in upper case and in lower case, a string of 300 bytes
EmptyConv == ""
UpperUuid == "550E8400-E29B-41D4-A716-446655440000"
LowerUuid == "550e8400-e29b-41d4-a716-446655440000"
LongConv == "c300"
UUID_PATTERN(conversationId) == conversationId \in {UpperUuid, LowerUuid}
\* length of the UTF-8 encoding
byteLength(conversationId) ==
  IF conversationId = EmptyConv THEN 0
  ELSE IF conversationId = LongConv THEN 300
  ELSE 2
uuidToBytes(uuid) == <<"uuid", IF uuid = UpperUuid THEN LowerUuid ELSE uuid>>
bytesToUuid(bytes) == bytes[2]

deriveInviteKey(privateKey, inboxId) == <<"hkdf", privateKey, inboxId>>

\* type byte, then 16 bytes, or a length of one byte and the string, or the
\* sentinel 0, a length of two bytes and the string
packConversationId(conversationId) ==
  IF UUID_PATTERN(conversationId)
  THEN <<TYPE_UUID, uuidToBytes(conversationId)>>
  ELSE IF byteLength(conversationId) <= 255
  THEN <<TYPE_STRING, byteLength(conversationId), conversationId>>
  ELSE <<TYPE_STRING, 0, byteLength(conversationId) % 65536, conversationId>>

\* a second byte 0 is read as the sentinel of the long form, which needs
\* four bytes at least
unpackConversationId(data) ==
  IF data[1] = TYPE_UUID THEN Ok(bytesToUuid(data[2]))
  ELSE IF data[1] = TYPE_STRING
  THEN IF data[2] = 0
       THEN IF Len(data) < 4 THEN Threw
            ELSE IF byteLength(data[4]) = data[3] THEN Ok(data[4])
            ELSE Threw
       ELSE IF byteLength(data[3]) = data[2] THEN Ok(data[3])
       ELSE Threw
  ELSE Threw

encryptConversationToken(conversationId, creatorInboxId, privateKey) ==
  [version |-> FORMAT_VERSION,
   key |-> deriveInviteKey(privateKey, creatorInboxId),
   aad |-> creatorInboxId,
   plaintext |-> packConversationId(conversationId)]

\* faulty variant: the token opens under any key and inbox id
decryptConversationTokenUnbound(tokenBytes, creatorInboxId, privateKey) ==
  IF tokenBytes = EmptyBytes THEN Threw
  ELSE IF tokenBytes.version # FORMAT_VERSION THEN Threw
  ELSE unpackConversationId(tokenBytes.plaintext)

decryptConversationToken(tokenBytes, creatorInboxId, privateKey) ==
  IF tokenBytes = EmptyBytes THEN Threw
  ELSE IF tokenBytes.version # FORMAT_VERSION THEN Threw
  ELSE IF \/ tokenBytes.key # deriveInviteKey(privateKey, creatorInboxId)
          \/ tokenBytes.aad # creatorInboxId
       THEN Threw
  ELSE unpackConversationId(tokenBytes.plaintext)

\* ------------------------------------------------------------ wire codec
\* optional sfixed64 fields are written only when truthy (0n is falsy)
encodeInvitePayload(payload) ==
  << <<1, payload.conversationToken>>,
     <<2, payload.creatorInboxId>>,
     <<3, payload.tag>> >>
  \o (IF payload.conversationExpiresAtUnix # NoDate
         /\ payload.conversationExpiresAtUnix # 0
      THEN << <<7, payload.conversationExpiresAtUnix>> >> ELSE << >>)
  \o (IF payload.expiresAtUnix # NoDate /\ payload.expiresAtUnix # 0
      THEN << <<8, payload.expiresAtUnix>> >> ELSE << >>)
  \o << <<9, payload.expiresAfterUse>> >>

\* absent fields take the protobuf defaults; a wire-level 0 expiry is
\* reported as not set
decodeInvitePayload(bytes) ==
  IF ~WellFormed(bytes) THEN Threw
  ELSE Ok([conversationToken |-> FieldOf(bytes, 1, EmptyBytes),
           creatorInboxId |-> FieldOf(bytes, 2, EmptyBytes),
           tag |-> FieldOf(bytes, 3, NoTag),
           conversationExpiresAtUnix |->
             IF FieldOf(bytes, 7, 0) # 0 THEN FieldOf(bytes, 7, 0) ELSE NoDate,
           expiresAtUnix |->
             IF FieldOf(bytes, 8, 0) # 0 THEN FieldOf(bytes, 8, 0) ELSE NoDate,
           expiresAfterUse |-> FieldOf(bytes, 9, FALSE)])

encodeSignedInvite(invite) ==
  << <<1, invite.payload>>, <<2, invite.signature>> >>

decodeSignedInvite(bytes) ==
  IF ~WellFormed(bytes) THEN Threw
  ELSE Ok([payload |-> FieldOf(bytes, 1, EmptyBytes),
           signature |-> FieldOf(bytes, 2, EmptyBytes)])

\* ---------------------------------------------------------- slug framing
\* A text is what the code can observe of a string.  empty: it has no
\* characters at all.  raw: the trimmed text itself.  url: new URL(text)
\* succeeds; base, i, code and path are then what precedes the query, the
\* values of the query parameters i and code, and the last non-empty
\* segment of the path.  A string inside a text is described by long50 (at
\* least 50 characters), slugChars (only [A-Za-z0-9_-*]) and b64, the bytes
\* that base64url decoding of it, '*' removed, yields.  The decoder skips
\* characters outside its alphabet, so "?" or "k" decode to no bytes.
\* the string "", which is also what stands for a parameter or segment that
\* is not there: both are falsy
EmptyCode == [long50 |-> FALSE, slugChars |-> FALSE, b64 |-> EmptyBytes]
getInviteBaseURL(env) ==
  IF env = "production" THEN "https://popup.convos.org/v2"
  ELSE "https://dev.convos.org/v2"
\* a base a caller configures, without a path
CustomBase == "https://example.org"
\* the last non-empty path segment of a base: "v2", or none
lastSegment(baseURL) ==
  IF baseURL \in {getInviteBaseURL("production"), getInviteBaseURL("dev")}
  THEN [long50 |-> FALSE, slugChars |-> TRUE, b64 |-> GarbageBytes]
  ELSE EmptyCode
encodeToSlug(data) ==
  LET compressed == compressIfSmaller(data)
  IN [long50 |-> length(compressed) >= 37, slugChars |-> TRUE, b64 |-> compressed]
RawText(code) ==
  [empty |-> FALSE, raw |-> code, url |-> FALSE, base |-> "",
   i |-> EmptyCode, code |-> EmptyCode, path |-> EmptyCode]
\* a URL contains ':' and '/', which are no slug characters, and is at
\* least as long as the slug; encodeURIComponent is undone by searchParams
generateInviteURL(slug, baseURL) ==
  [empty |-> FALSE,
   raw |-> [long50 |-> slug.raw.long50, slugChars |-> FALSE, b64 |-> GarbageBytes],
   url |-> TRUE, base |-> baseURL,
   i |-> slug.raw, code |-> EmptyCode, path |-> lastSegment(baseURL)]
\* faulty variant: the legacy parameter is read before ?i=
parseInviteCodeLegacyFirst(input) ==
  IF input.url /\ input.code # EmptyCode THEN input.code
  ELSE IF input.url /\ input.i # EmptyCode THEN input.i
  ELSE IF input.url /\ input.path # EmptyCode THEN input.path
  ELSE input.raw
parseInviteCode(input) ==
  IF input.url /\ input.i # EmptyCode THEN input.i
  ELSE IF input.url /\ input.code # EmptyCode THEN input.code
  ELSE IF input.url /\ input.path # EmptyCode THEN input.path
  ELSE input.raw
decodeFromSlug(slug) == decompress(slug.b64)

looksLikeInviteSlug(text) ==
  IF ~text.raw.long50 THEN FALSE
  ELSE text.raw.slugChars

\* ----------------------------------------------------------- invite codec
createInviteSlug(options) ==
  LET conversationToken ==
        encryptConversationToken(options.conversationId,
                                 options.creatorInboxId, options.privateKey)
      payload == [conversationToken |-> conversationToken,
                  creatorInboxId |-> hexToBytes(options.creatorInboxId),
                  tag |-> options.inviteTag,
                  expiresAfterUse |-> options.expiresAfterUse,
                  expiresAtUnix |-> options.expiresAt,
                  conversationExpiresAtUnix |-> options.conversationExpiresAt]
      payloadBytes == encodeInvitePayload(payload)
      signature == signWithRecovery(hashSha256(payloadBytes), options.privateKey)
  IN RawText(encodeToSlug(encodeSignedInvite([payload |-> payloadBytes,
                                              signature |-> signature])))

parseInviteSlug(slugOrUrl, now) ==
  LET bytes == decodeFromSlug(parseInviteCode(slugOrUrl))
      signedInvite == IF bytes.ok THEN decodeSignedInvite(bytes.val) ELSE Threw
      payload == IF signedInvite.ok
                 THEN decodeInvitePayload(signedInvite.val.payload) ELSE Threw
  IN IF ~signedInvite.ok \/ ~payload.ok THEN Threw
     ELSE Ok([signedInvite |-> signedInvite.val,
              payload |-> payload.val,
              creatorInboxId |-> bytesToHex(payload.val.creatorInboxId),
              isExpired |-> /\ payload.val.expiresAtUnix # NoDate
                            /\ payload.val.expiresAtUnix < now,
              isConversationExpired |->
                /\ payload.val.conversationExpiresAtUnix # NoDate
                /\ payload.val.conversationExpiresAtUnix < now])

verifyInvite(signedInvite, expectedPublicKey) ==
  LET recovered == recoverPublicKey(hashSha256(signedInvite.payload),
                                    signedInvite.signature)
  IN recovered.ok /\ recovered.val = expectedPublicKey

\* getPublicKey is called outside the try block of verifyInvite
verifyInviteWithPrivateKey(signedInvite, privateKey) ==
  LET publicKey == getPublicKey(privateKey)
  IN IF ~publicKey.ok THEN Threw
     ELSE Ok(verifyInvite(signedInvite, publicKey.val))

decryptInviteConversationId(parsedInvite, privateKey) ==
  decryptConversationToken(parsedInvite.payload.conversationToken,
                           parsedInvite.creatorInboxId, privateKey)

\* --------------------------------------------------- error content type
\* faulty variant: the error does not carry the tag
createConversationExpiredErrorNoTag(inviteTag) ==
  [errorType |-> "conversationExpired", inviteTag |-> NoTag]

createConversationExpiredError(inviteTag) ==
  [errorType |-> "conversationExpired", inviteTag |-> inviteTag]
createGenericFailureError(inviteTag) ==
  [errorType |-> "genericFailure", inviteTag |-> inviteTag]

\* the error on the wire: the JSON text of an object with the error type,
\* the tag and the timestamp as an ISO 8601 string, which names the
\* millisecond; the timestamp is a valid Date
InviteJoinErrorType == {"conversationExpired", "genericFailure", "unknown"}
encodeInviteJoinError(error) ==
  [errorType |-> error.errorType, inviteTag |-> error.inviteTag,
   timestamp |-> <<"iso", error.timestamp>>]
\* faulty variant: the error type of the payload is taken as it is
decodeInviteJoinErrorAnyType(data) ==
  [errorType |-> data.errorType, inviteTag |-> data.inviteTag,
   timestamp |-> data.timestamp[2]]
decodeInviteJoinError(data) ==
  [errorType |-> IF data.errorType \in InviteJoinErrorType
                 THEN data.errorType ELSE "unknown",
   inviteTag |-> data.inviteTag,
   timestamp |-> data.timestamp[2]]

\* ------------------------------------------------------- metadata codec
NoAppData == [b64 |-> EmptyBytes]
\* an optional string that was not given
Undefined == "undefined"
\* a ConversationProfile on the wire: name and image are written when given
encodeConversationProfile(p) ==
  << <<1, p.inboxId>> >>
  \o (IF p.name = Undefined THEN << >> ELSE << <<2, p.name>> >>)
  \o (IF p.image = Undefined THEN << >> ELSE << <<3, p.image>> >>)
\* an optional string that is not on the wire reads as the empty string
decodeConversationProfile(bytes) ==
  [inboxId |-> FieldOf(bytes, 1, EmptyBytes),
   name |-> FieldOf(bytes, 2, ""),
   image |-> FieldOf(bytes, 3, "")]
\* the expiry is written when it is truthy (given and not 0n), the image
\* encryption key when it is given
encodeConversationMetadata(metadata) ==
  << <<1, metadata.tag>> >>
  \o [i \in 1..Len(metadata.profiles) |->
        <<2, encodeConversationProfile(metadata.profiles[i])>>]
  \o (IF metadata.expiresAtUnix \in {NoDate, 0}
      THEN << >> ELSE << <<3, metadata.expiresAtUnix>> >>)
  \o (IF metadata.imageEncryptionKey = Undefined
      THEN << >> ELSE << <<4, metadata.imageEncryptionKey>> >>)
\* a field that is not on the wire reads as the default on the message
\* prototype: a Long of value zero and an empty buffer, both truthy
decodeConversationMetadata(bytes) ==
  IF ~WellFormed(bytes) THEN Threw
  ELSE Ok([tag |-> FieldOf(bytes, 1, NoTag),
           profiles |-> [i \in 1..Cardinality({j \in 1..Len(bytes) : bytes[j][1] = 2})
                           |-> decodeConversationProfile(
                                 bytes[CHOOSE j \in 1..Len(bytes) :
                                  /\ bytes[j][1] = 2
                                  /\ Cardinality({k \in 1..j : bytes[k][1] = 2}) = i][2])],
           expiresAtUnix |-> FieldOf(bytes, 3, 0),
           imageEncryptionKey |-> FieldOf(bytes, 4, "")])
encodeMetadata(metadata) ==
  [b64 |-> compressIfSmaller(encodeConversationMetadata(metadata))]
decodeMetadata(encoded) ==
  LET bytes == decompress(encoded.b64)
  IN IF bytes.ok THEN decodeConversationMetadata(bytes.val) ELSE Threw
\* without the expiresAt option
getInviteTag(encodedMetadata) ==
  LET metadata == decodeMetadata(encodedMetadata)
  IN IF metadata.ok THEN Ok(metadata.val.tag) ELSE Threw
createInitialMetadata(inviteTag) ==
  [tag |-> inviteTag, profiles |-> << >>,
   expiresAtUnix |-> NoDate, imageEncryptionKey |-> Undefined]
\* generateSecureRandomString(10): a string as the indices of its characters
\* in ALPHANUMERIC, which has 62 characters
generateInviteTag(bytes) == [i \in 1..10 |-> bytes[i] % 62]
\* faulty variant: only the tag is carried over
rotateInviteTagForgetful(currentMetadata, newTag) ==
  [tag |-> newTag, profiles |-> << >>,
   expiresAtUnix |-> NoDate, imageEncryptionKey |-> Undefined]
rotateInviteTag(currentMetadata, newTag) ==
  [currentMetadata EXCEPT !.tag = newTag]

\* ------------------------------------------------------------ DM inputs
NonText == [kind |-> "other"]
StringContent(text) == [kind |-> "string", text |-> text]
ObjectContent(text) == [kind |-> "object", text |-> text]
Null == [RawText(EmptyCode) EXCEPT !.empty = TRUE]

\* null and "" are both falsy for the caller
extractText(content) ==
  IF content.kind = "string" THEN content.text
  ELSE IF content.kind = "object" THEN content.text
  ELSE Null

InviteOptions(conv, creator, key, tag, exp, cexp) ==
  [conversationId |-> conv, creatorInboxId |-> creator, privateKey |-> key,
   inviteTag |-> tag, expiresAt |-> exp, conversationExpiresAt |-> cexp,
   expiresAfterUse |-> FALSE]

\* invites this middleware can mint
SelfSlugs ==
  {createInviteSlug(InviteOptions(c, SelfInbox, SelfKey, t, NoDate, NoDate)) :
     c \in ConvIds, t \in Tags}
  \cup {createInviteSlug(InviteOptions(c, SelfInbox, SelfKey, "t1", e, ce)) :
          c \in ConvIds, e \in ExpiryChoices, ce \in ExpiryChoices}

\* invites minted elsewhere: another key claiming this creator, another
\* creator with its own key, another creator's id under this key
ForeignSlugs ==
  {createInviteSlug(InviteOptions(KnownConv, SelfInbox, OtherKey, "t1", e, NoDate)) :
     e \in ExpiryChoices}
  \cup {createInviteSlug(InviteOptions(KnownConv, OtherCreator, OtherKey, "t1", e, NoDate)) :
          e \in ExpiryChoices}
  \cup {createInviteSlug(InviteOptions(KnownConv, OtherCreator, SelfKey, "t1", NoDate, NoDate))}

\* a signed invite assembled from parts: the payload fields and the signature
\* are chosen independently
Assemble(token, creator, tag, exp, signature) ==
  RawText(encodeToSlug(encodeSignedInvite(
    [payload |-> encodeInvitePayload(
                   [conversationToken |-> token,
                    creatorInboxId |-> hexToBytes(creator),
                    tag |-> tag, expiresAfterUse |-> FALSE,
                    expiresAtUnix |-> exp,
                    conversationExpiresAtUnix |-> NoDate]),
     signature |-> signature])))

SignedAssemble(token, creator, tag, exp, key) ==
  Assemble(token, creator, tag, exp,
           signWithRecovery(hashSha256(encodeInvitePayload(
             [conversationToken |-> token,
              creatorInboxId |-> hexToBytes(creator),
              tag |-> tag, expiresAfterUse |-> FALSE,
              expiresAtUnix |-> exp,
              conversationExpiresAtUnix |-> NoDate])), key))

GoodToken == encryptConversationToken(KnownConv, SelfInbox, SelfKey)
OldVersionToken == [GoodToken EXCEPT !.version = 2]
WrongAadToken == encryptConversationToken(KnownConv, OtherCreator, SelfKey)

TamperedSlugs ==
  { \* payload changed after signing
    Assemble(GoodToken, SelfInbox, "t1", NoDate,
             signWithRecovery(hashSha256(EmptyBytes), SelfKey)),
    \* recovery byte out of range
    Assemble(GoodToken, SelfInbox, "t1", NoDate,
             [len |-> 65, v |-> 4, hash |-> hashSha256(EmptyBytes), key |-> SelfKey]),
    \* signed by this key over a token that does not decrypt
    SignedAssemble(OldVersionToken, SelfInbox, "t1", NoDate, SelfKey),
    SignedAssemble(WrongAadToken, SelfInbox, "t1", NoDate, SelfKey),
    SignedAssemble(OldVersionToken, SelfInbox, "t1", 1, SelfKey) }

\* texts that are not the serialization of a signed invite
ChatTexts ==
  {RawText([long50 |-> l, slugChars |-> s, b64 |-> b]) :
     l \in BOOLEAN, s \in BOOLEAN, b \in {EmptyBytes, GarbageBytes}}
  \cup {[RawText([long50 |-> FALSE, slugChars |-> FALSE, b64 |-> GarbageBytes])
           EXCEPT !.url = TRUE, !.base = CustomBase,
                  !.path = [long50 |-> FALSE, slugChars |-> TRUE, b64 |-> GarbageBytes]]}

UrlTexts == {generateInviteURL(createInviteSlug(
               InviteOptions(KnownConv, SelfInbox, SelfKey, "t1", NoDate, NoDate)),
               getInviteBaseURL("production"))}

\* a zlib stream of about 1 KiB behind the marker byte that inflates to one
\* byte more than the limit, as a raw slug and as the ?i= parameter of an
\* invite URL
BombBytes ==
  RawBytes(COMPRESSION_MARKER, 1100, 1100,
           Ok(RawBytes(66, MAX_DECOMPRESSED_SIZE + 1, 1100, Threw)))
BombTexts ==
  LET slug == RawText([long50 |-> TRUE, slugChars |-> TRUE, b64 |-> BombBytes])
  IN {slug, generateInviteURL(slug, getInviteBaseURL("production"))}

Texts == SelfSlugs \cup ForeignSlugs \cup TamperedSlugs \cup ChatTexts \cup UrlTexts
         \cup BombTexts

Contents == {NonText, StringContent(Null)}
            \cup {StringContent(t) : t \in Texts}
            \cup {ObjectContent(t) : t \in ChatTexts}

\* ================================================================ state
VARIABLES
  inviteHandlers,  \* ConvosMiddleware.inviteHandlers
  now,             \* wall clock, whole seconds
  appData,         \* app_data of the group KnownConv
  issued,          \* <<conversation id, tag>> of the invites minted so far
  retired,         \* tags of KnownConv that a rotation has replaced
  pc,              \* position of the DM delivery in flight
  ctx,             \* the XMTPMessageContext being handled
  outcome,         \* the return statement handleMessage is heading for
  conversation,    \* result of getConversationById
  idx,             \* position of the for-of iterator over inviteHandlers
  ops,             \* accept and reject calls the handlers of this delivery have made
  pending,         \* error content about to be sent
  resume,          \* where control returns after sendError
  calls,           \* substrate and callback invocations of this delivery
  joiner,          \* the join() call of another middleware instance
  group,           \* the ConvosGroup call on the group KnownConv
  codec            \* an invite under the functions of the invite codec

vars == <<codec, joiner, group, inviteHandlers, now, appData, issued, retired, pc, ctx,
          outcome, conversation, idx, ops, pending, resume, calls>>

\* refreshed, blocked, added: the substrate carried out a refresh, a block,
\* an addMembers;
\* lookupThrew: getConversationById failed;
\* earlier: <<content, sender>> of the deliveries before this one in which
\* accept() added the sender;
\* grew: on() was called while the invite event was being dispatched;
\* reject: the arguments of the reject() calls; threw: how many handler
\* invocations ended in an exception
NoCalls == [next |-> 0, refresh |-> 0, refreshed |-> FALSE, block |-> << >>, blocked |-> FALSE,
            send |-> EmptyBag, lookupThrew |-> FALSE,
            handler |-> << >>, accept |-> 0, addMembers |-> << >>,
            added |-> FALSE, grew |-> FALSE,
            reject |-> EmptyBag, threw |-> 0, earlier |-> {}]
NoCtx == [content |-> NonText, sender |-> SelfInbox]
NoError == [errorType |-> "unknown", inviteTag |-> NoTag]
\* inboxId: the inbox of the calling instance; at: the clock when join() was
\* called; dms: the peers createDm was called with; sent: the texts sent on
\* the DM; delivered: the creator's middleware has been given the text
NoJoin == [pc |-> "idle", inboxId |-> Joiner, inviteUrl |-> Null, at |-> 0,
           dms |-> << >>, sent |-> << >>, error |-> "none",
           result |-> "none", delivered |-> FALSE]
\* options: what the invite was minted from; tampered: how its bytes were
\* changed afterwards; did: the functions applied to it; parsed, verified,
\* decrypted: the results of parseInviteSlug, of verifyInvite or
\* verifyInviteWithPrivateKey with verifyKey, and of
\* decryptInviteConversationId with decryptKey; at: the clock when
\* parseInviteSlug ran; middleware: the options a middleware is built with;
\* rotated: what rotateInviteTag makes of metadata;
\* error, decodedError: a join error and what decodeInviteJoinError makes of
\* its encoding
\* data, decoded: the bytes given to encodeToSlug and what decodeFromSlug
\* makes of the slug; metadata, encoded: a metadata value and its
\* encodeMetadata; decodedMetadata, inviteTag: what decodeMetadata and
\* getInviteTag make of encoded
NoInvite == [did |-> {}, options |-> "none", slug |-> Null,
             tampered |-> "no", parsed |-> "none",
             verifyKey |-> "none", verified |-> "none",
             decryptKey |-> "none", decrypted |-> "none",
             middleware |-> [env |-> Undefined, inviteBaseURL |-> Undefined],
             at |-> 0, data |-> EmptyBytes, decoded |-> Threw,
             rotated |-> createInitialMetadata(NoTag),
             error |-> [errorType |-> "unknown", inviteTag |-> NoTag, timestamp |-> 0],
             decodedError |-> [errorType |-> "unknown", inviteTag |-> NoTag,
                               timestamp |-> 0],
             metadata |-> createInitialMetadata(NoTag), encoded |-> NoAppData,
             decodedMetadata |-> Threw, inviteTag |-> Threw]
\* op: the method; existingAppData: app_data read at the start of the call;
\* metadata: what the call persists; updates: the arguments of its
\* updateAppData calls; inviteTag: the tag of the invite it returned
\* second: a call on the same group that starts while the first is
\* suspended at its updateAppData
NoSecondCall == [pc |-> "idle", op |-> "none", existingAppData |-> NoAppData,
                 metadata |-> createInitialMetadata(NoTag),
                 updates |-> << >>, inviteTag |-> NoTag]
NoGroupCall == [pc |-> "idle", op |-> "none", existingAppData |-> NoAppData,
                options |-> [name |-> Undefined, image |-> Undefined],
                metadata |-> createInitialMetadata(NoTag),
                updates |-> << >>, inviteTag |-> NoTag,
                second |-> NoSecondCall]

Init ==
  /\ inviteHandlers = << >>
  /\ now = 1
  /\ appData = NoAppData
  /\ issued = {}
  /\ retired = {}
  /\ pc = "idle"
  /\ ctx = NoCtx
  /\ outcome = "none"
  /\ conversation = "none"
  /\ idx = 0
  /\ ops = 0
  /\ pending = NoError
  /\ resume = "none"
  /\ calls = NoCalls
  /\ joiner = NoJoin
  /\ group = NoGroupCall
  /\ codec = NoInvite

\* the substrate knows exactly one group
getConversationById(id) == IF id = KnownConv THEN id ELSE "null"

\* what the current DM parses to
Parsed == parseInviteSlug(extractText(ctx.content), now)
InviteTagOf(c) == parseInviteSlug(extractText(c), now).val.payload.tag

\* control is outside synchronous middleware code: nothing in flight, or
\* the delivery is suspended at an await
Suspended == pc \in {"idle", "refresh", "block", "send", "lookup", "handler",
                     "addMembers", "next"}

\* ------------------------------------------------------ handler registry
on(handlers, handler) == Append(handlers, handler)

indexOf(handlers, handler) ==
  IF \E i \in 1..Len(handlers) : handlers[i] = handler
  THEN (CHOOSE i \in 1..Len(handlers) :
          /\ handlers[i] = handler
          /\ \A j \in 1..(i-1) : handlers[j] # handler) - 1
  ELSE -1

splice(handlers, index) ==
  [i \in 1..(Len(handlers) - 1) |->
     IF i <= index THEN handlers[i] ELSE handlers[i + 1]]

off(handlers, handler) ==
  IF indexOf(handlers, handler) # -1
  THEN splice(handlers, indexOf(handlers, handler))
  ELSE handlers

On(h) ==
  /\ Suspended
  /\ Len(inviteHandlers) < MaxHandlers
  /\ inviteHandlers' = on(inviteHandlers, h)
  /\ calls' = [calls EXCEPT !.grew = @ \/ outcome = "invite"]
  /\ UNCHANGED <<codec, joiner, group, now, appData, issued, retired, pc, ctx, outcome,
                 conversation, idx, ops, pending, resume>>

Off(h) ==
  /\ Suspended
  /\ inviteHandlers' = off(inviteHandlers, h)
  /\ UNCHANGED <<codec, joiner, group, now, appData, issued, retired, pc, ctx, outcome,
                 conversation, idx, ops, pending, resume, calls>>

\* ------------------------------------------------------- handleMessage
\* faulty variant: next() runs whatever handleMessage returned
middlewareAlwaysNext(handled) == "next"

\* middleware(): "const handled = await this.handleMessage(ctx);
\* if (!handled) await next()"
middleware(handled) == IF handled THEN "done" ELSE "next"

\* faulty variant: the signature of the invite is not verified
ClassifyNoSignatureCheck(content, sender) ==
  LET messageText == extractText(content)
      parsed == parseInviteSlug(messageText, now)
  IN IF messageText.empty THEN "notText"
     ELSE IF sender = SelfInbox THEN "fromSelf"
     ELSE IF ~parsed.ok
          THEN (IF looksLikeInviteSlug(messageText)
                THEN "malformed" ELSE "notInvite")
     ELSE IF parsed.val.creatorInboxId # SelfInbox THEN "wrongCreator"
     ELSE IF parsed.val.isExpired \/ parsed.val.isConversationExpired
          THEN "expired"
     ELSE IF ~decryptInviteConversationId(parsed.val, SelfKey).ok
          THEN "undecryptable"
     ELSE "lookup"

\* faulty variant: messages of the own inbox are classified like any other
ClassifyNoSelfCheck(content, sender) ==
  LET messageText == extractText(content)
      parsed == parseInviteSlug(messageText, now)
  IN IF messageText.empty THEN "notText"
     ELSE IF ~parsed.ok
          THEN (IF looksLikeInviteSlug(messageText)
                THEN "malformed" ELSE "notInvite")
     ELSE IF parsed.val.creatorInboxId # SelfInbox THEN "wrongCreator"
     ELSE IF ~verifyInviteWithPrivateKey(parsed.val.signedInvite, SelfKey).ok
          THEN "verifyThrows"
     ELSE IF ~verifyInviteWithPrivateKey(parsed.val.signedInvite, SelfKey).val
          THEN "badSignature"
     ELSE IF parsed.val.isExpired \/ parsed.val.isConversationExpired
          THEN "expired"
     ELSE IF ~decryptInviteConversationId(parsed.val, SelfKey).ok
          THEN "undecryptable"
     ELSE "lookup"

\* faulty variant: the expiry is looked at before the creator and the
\* signature
ClassifyExpiryFirst(content, sender) ==
  LET messageText == extractText(content)
      parsed == parseInviteSlug(messageText, now)
  IN IF messageText.empty THEN "notText"
     ELSE IF sender = SelfInbox THEN "fromSelf"
     ELSE IF ~parsed.ok
          THEN (IF looksLikeInviteSlug(messageText)
                THEN "malformed" ELSE "notInvite")
     ELSE IF parsed.val.isExpired \/ parsed.val.isConversationExpired
          THEN "expired"
     ELSE IF parsed.val.creatorInboxId # SelfInbox THEN "wrongCreator"
     ELSE IF ~verifyInviteWithPrivateKey(parsed.val.signedInvite, SelfKey).ok
          THEN "verifyThrows"
     ELSE IF ~verifyInviteWithPrivateKey(parsed.val.signedInvite, SelfKey).val
          THEN "badSignature"
     ELSE IF ~decryptInviteConversationId(parsed.val, SelfKey).ok
          THEN "undecryptable"
     ELSE "lookup"

\* faulty variant: an invite with expiresAfterUse that an earlier delivery
\* was accepted with counts as expired
ClassifyOnce(content, sender) ==
  LET messageText == extractText(content)
      parsed == parseInviteSlug(messageText, now)
  IN IF messageText.empty THEN "notText"
     ELSE IF sender = SelfInbox THEN "fromSelf"
     ELSE IF ~parsed.ok
          THEN (IF looksLikeInviteSlug(messageText)
                THEN "malformed" ELSE "notInvite")
     ELSE IF parsed.val.creatorInboxId # SelfInbox THEN "wrongCreator"
     ELSE IF ~verifyInviteWithPrivateKey(parsed.val.signedInvite, SelfKey).ok
          THEN "verifyThrows"
     ELSE IF ~verifyInviteWithPrivateKey(parsed.val.signedInvite, SelfKey).val
          THEN "badSignature"
     ELSE IF parsed.val.isExpired \/ parsed.val.isConversationExpired
          THEN "expired"
     ELSE IF /\ parsed.val.payload.expiresAfterUse
             /\ \E e \in calls.earlier : e[1] = content
          THEN "expired"
     ELSE IF ~decryptInviteConversationId(parsed.val, SelfKey).ok
          THEN "undecryptable"
     ELSE "lookup"

\* the synchronous part of handleMessage, up to its first await: the branch
\* the message takes
Classify(content, sender) ==
  LET messageText == extractText(content)
      parsed == parseInviteSlug(messageText, now)
  IN IF messageText.empty THEN "notText"
     ELSE IF sender = SelfInbox THEN "fromSelf"
     ELSE IF ~parsed.ok
          THEN (IF looksLikeInviteSlug(messageText)
                THEN "malformed" ELSE "notInvite")
     ELSE IF parsed.val.creatorInboxId # SelfInbox THEN "wrongCreator"
     ELSE IF ~verifyInviteWithPrivateKey(parsed.val.signedInvite, SelfKey).ok
          THEN "verifyThrows"
     ELSE IF ~verifyInviteWithPrivateKey(parsed.val.signedInvite, SelfKey).val
          THEN "badSignature"
     ELSE IF parsed.val.isExpired \/ parsed.val.isConversationExpired
          THEN "expired"
     ELSE IF ~decryptInviteConversationId(parsed.val, SelfKey).ok
          THEN "undecryptable"
     ELSE "lookup"

PassBranches == {"notText", "fromSelf", "notInvite"}
BlockBranches == {"malformed", "wrongCreator", "badSignature", "undecryptable"}

\* texts only the holder of SelfKey can have produced
Mintable(content) ==
  LET t == extractText(content)
  IN (t \in SelfSlugs \cup UrlTexts) =>
        \E c \in ConvIds, tg \in Tags, e \in ExpiryChoices, ce \in ExpiryChoices :
           /\ <<c, tg>> \in issued
           /\ parseInviteCode(t) = createInviteSlug(
                         InviteOptions(c, SelfInbox, SelfKey, tg, e, ce)).raw

\* one iteration of "for (const handler of this.inviteHandlers)": the
\* iterator reads the live array
Iterate(i, c) ==
  IF i < Len(inviteHandlers)
  THEN /\ pc' = "handler"
       /\ idx' = i + 1
       /\ ops' = ops
       /\ calls' = [c EXCEPT !.handler = Append(@, inviteHandlers[i + 1])]
  ELSE /\ pc' = middleware(TRUE)
       /\ idx' = i
       /\ ops' = ops
       /\ calls' = c

\* handleMessage up to its first await
Receive(content, sender) ==
  /\ pc = "idle"
  /\ ctx' = [content |-> content, sender |-> sender]
  /\ LET branch == Classify(content, sender)
     IN /\ outcome' = IF branch \in PassBranches THEN "pass"
                      ELSE IF branch \in BlockBranches THEN "block"
                      ELSE IF branch = "expired" THEN "error"
                      ELSE "none"
        /\ pc' = IF branch \in PassBranches THEN middleware(FALSE)
                 ELSE IF branch \in BlockBranches THEN "refresh"
                 ELSE IF branch = "expired" THEN "send"
                 ELSE IF branch = "verifyThrows" THEN "failed"
                 ELSE "lookup"
        /\ pending' = IF branch = "expired"
                      THEN createConversationExpiredError(InviteTagOf(content))
                      ELSE NoError
        /\ resume' = IF branch = "expired" THEN "return" ELSE "none"
  /\ UNCHANGED <<codec, group, inviteHandlers, now, appData, issued, retired,
                 conversation, idx, ops, calls>>

\* the agent hands a message of any sender to the middleware
Deliver(content, sender) ==
  /\ Receive(content, sender)
  /\ UNCHANGED joiner

\* next(): the rest of the middleware chain, which may fail
CallNext(ok) ==
  /\ pc = "next"
  /\ calls' = [calls EXCEPT !.next = @ + 1]
  /\ pc' = IF ok THEN "done" ELSE "failed"
  /\ UNCHANGED <<codec, joiner, group, inviteHandlers, now, appData, issued, retired, ctx,
                 outcome, conversation, idx, ops, pending, resume>>

\* faulty variant: block is attempted although the refresh has failed
RefreshConsentListAlwaysBlocks(ok) ==
  /\ pc = "refresh"
  /\ calls' = [calls EXCEPT !.refresh = @ + 1, !.refreshed = @ \/ ok]
  /\ pc' = "block"
  /\ UNCHANGED <<codec, joiner, group, inviteHandlers, now, appData, issued, retired, ctx,
                 outcome, conversation, idx, ops, pending, resume>>

\* blockSender: refreshConsentList, then block; a failure of either is
\* swallowed
RefreshConsentList(ok) ==
  /\ pc = "refresh"
  /\ calls' = [calls EXCEPT !.refresh = @ + 1, !.refreshed = @ \/ ok]
  /\ pc' = IF ok THEN "block" ELSE middleware(TRUE)
  /\ UNCHANGED <<codec, joiner, group, inviteHandlers, now, appData, issued, retired, ctx,
                 outcome, conversation, idx, ops, pending, resume>>

\* faulty variant: the own inbox is blocked instead of the sender
BlockSelf(ok) ==
  /\ pc = "block"
  /\ calls' = [calls EXCEPT !.block = Append(@, SelfInbox),
                          !.blocked = @ \/ ok]
  /\ pc' = middleware(TRUE)
  /\ UNCHANGED <<codec, joiner, group, inviteHandlers, now, appData, issued, retired, ctx, outcome,
                 conversation, idx, ops, pending, resume>>

Block(ok) ==
  /\ pc = "block"
  /\ calls' = [calls EXCEPT !.block = Append(@, ctx.sender),
                          !.blocked = @ \/ ok]
  /\ pc' = middleware(TRUE)
  /\ UNCHANGED <<codec, joiner, group, inviteHandlers, now, appData, issued, retired, ctx, outcome,
                 conversation, idx, ops, pending, resume>>

\* faulty variant: a failure of the send escapes handleMessage
SendErrorPropagates(ok) ==
  /\ pc = "send"
  /\ LET c == [calls EXCEPT !.send = @ (+) SetToBag({pending})]
     IN IF ~ok
        THEN /\ pc' = "failed"
             /\ calls' = c
             /\ UNCHANGED <<idx, ops>>
        ELSE IF resume = "loop" THEN Iterate(idx, c)
        ELSE /\ pc' = IF resume = "handler" THEN "handler" ELSE middleware(TRUE)
             /\ calls' = c
             /\ UNCHANGED <<idx, ops>>
  /\ pending' = NoError
  /\ resume' = "none"
  /\ UNCHANGED <<codec, joiner, group, inviteHandlers, now, appData, issued, retired, ctx,
                 outcome, conversation>>

\* sendError: ctx.conversation.send(encoded); a failure is swallowed, so
\* control continues the same way whether the send succeeded or not
SendError(ok) ==
  /\ pc = "send"
  /\ LET c == [calls EXCEPT !.send = @ (+) SetToBag({pending})]
     IN IF resume = "loop" THEN Iterate(idx, c)
        ELSE /\ pc' = IF resume = "handler" THEN "handler" ELSE middleware(TRUE)
             /\ calls' = c
             /\ UNCHANGED <<idx, ops>>
  /\ pending' = NoError
  /\ resume' = "none"
  /\ UNCHANGED <<codec, joiner, group, inviteHandlers, now, appData, issued, retired, ctx,
                 outcome, conversation>>

\* faulty variant: a failure of the lookup is answered like a conversation
\* that no longer exists
LookupSwallows(ok) ==
  /\ pc = "lookup"
  /\ LET id == decryptInviteConversationId(Parsed.val, SelfKey).val
         found == getConversationById(id)
     IN IF ~ok \/ found = "null"
        THEN /\ pc' = "send"
             /\ outcome' = "error"
             /\ pending' = createConversationExpiredError(Parsed.val.payload.tag)
             /\ resume' = "return"
             /\ calls' = [calls EXCEPT !.lookupThrew = @ \/ ~ok]
             /\ UNCHANGED <<conversation, idx, ops>>
        ELSE /\ conversation' = found
             /\ outcome' = "invite"
             /\ Iterate(0, calls)
             /\ UNCHANGED <<pending, resume>>
  /\ UNCHANGED <<codec, joiner, group, inviteHandlers, now, appData, issued, retired, ctx>>

\* faulty variant: a null conversation is not told from a found one
LookupNoNullCheck(ok) ==
  /\ pc = "lookup"
  /\ LET id == decryptInviteConversationId(Parsed.val, SelfKey).val
         found == getConversationById(id)
     IN IF ~ok
        THEN /\ pc' = "failed"
             /\ calls' = [calls EXCEPT !.lookupThrew = TRUE]
             /\ UNCHANGED <<outcome, conversation, idx, ops, pending, resume>>
        ELSE /\ conversation' = found
             /\ outcome' = "invite"
             /\ Iterate(0, calls)
             /\ UNCHANGED <<pending, resume>>
  /\ UNCHANGED <<codec, joiner, group, inviteHandlers, now, appData, issued, retired, ctx>>

\* getConversationById: a conversation, null, or a substrate failure
Lookup(ok) ==
  /\ pc = "lookup"
  /\ LET id == decryptInviteConversationId(Parsed.val, SelfKey).val
         found == getConversationById(id)
     IN IF ~ok
        THEN /\ pc' = "failed"
             /\ calls' = [calls EXCEPT !.lookupThrew = TRUE]
             /\ UNCHANGED <<outcome, conversation, idx, ops, pending, resume>>
        ELSE IF found = "null"
        THEN /\ pc' = "send"
             /\ outcome' = "error"
             /\ pending' = createConversationExpiredError(Parsed.val.payload.tag)
             /\ resume' = "return"
             /\ UNCHANGED <<conversation, idx, ops, calls>>
        ELSE /\ conversation' = found
             /\ outcome' = "invite"
             /\ Iterate(0, calls)
             /\ UNCHANGED <<pending, resume>>
  /\ UNCHANGED <<codec, joiner, group, inviteHandlers, now, appData, issued, retired, ctx>>

\* ---------------------------------------------------- handler behaviour
\* a handler may call accept() and reject() on its context, then return or
\* throw
HandlerAccept ==
  /\ pc = "handler"
  /\ ops < MaxOps
  /\ ops' = ops + 1
  /\ calls' = [calls EXCEPT !.accept = @ + 1]
  /\ pc' = "addMembers"
  /\ UNCHANGED <<codec, joiner, group, inviteHandlers, now, appData, issued, retired, ctx,
                 outcome, conversation, idx, pending, resume>>

\* faulty variant: accept() adds the creator of the invite, not the sender
AddMembersCreator(result) ==
  /\ pc = "addMembers"
  /\ calls' = [calls EXCEPT !.addMembers =
                             Append(@, <<conversation, Parsed.val.creatorInboxId>>),
                          !.added = @ \/ result = "ok",
                          !.threw = IF result = "escapes" THEN @ + 1 ELSE @]
  /\ IF result = "escapes"
     THEN /\ pc' = "send"
          /\ pending' = createGenericFailureError(Parsed.val.payload.tag)
          /\ resume' = "loop"
     ELSE /\ pc' = "handler"
          /\ UNCHANGED <<pending, resume>>
  /\ UNCHANGED <<codec, joiner, group, inviteHandlers, now, appData, issued, retired, ctx, outcome,
                 conversation, idx, ops>>

\* accept: conversation.addMembers([senderInboxId]); a failure reaches the
\* handler, which catches it or lets it escape
AddMembers(result) ==
  /\ pc = "addMembers"
  /\ calls' = [calls EXCEPT !.addMembers = Append(@, <<conversation, ctx.sender>>),
                          !.added = @ \/ result = "ok",
                          !.threw = IF result = "escapes" THEN @ + 1 ELSE @]
  /\ IF result = "escapes"
     THEN /\ pc' = "send"
          /\ pending' = createGenericFailureError(Parsed.val.payload.tag)
          /\ resume' = "loop"
     ELSE /\ pc' = "handler"
          /\ UNCHANGED <<pending, resume>>
  /\ UNCHANGED <<codec, joiner, group, inviteHandlers, now, appData, issued, retired, ctx, outcome,
                 conversation, idx, ops>>

\* an error content a handler passes to reject()
SuppliedError == [errorType |-> "conversationExpired", inviteTag |-> NoTag]

\* faulty variant: the error passed to reject() is ignored
HandlerRejectIgnoresError(custom) ==
  /\ pc = "handler"
  /\ ops < MaxOps
  /\ ops' = ops + 1
  /\ calls' = [calls EXCEPT !.reject = @ (+) SetToBag({
                  [given |-> custom,
                   error |-> IF custom THEN SuppliedError ELSE NoError]})]
  /\ pending' = createGenericFailureError(Parsed.val.payload.tag)
  /\ resume' = "handler"
  /\ pc' = "send"
  /\ UNCHANGED <<codec, joiner, group, inviteHandlers, now, appData, issued, retired, ctx,
                 outcome, conversation, idx>>

\* reject(error?): the supplied error, or GenericFailure with the invite tag
HandlerReject(custom) ==
  /\ pc = "handler"
  /\ ops < MaxOps
  /\ ops' = ops + 1
  /\ calls' = [calls EXCEPT !.reject = @ (+) SetToBag({
                  [given |-> custom,
                   error |-> IF custom THEN SuppliedError ELSE NoError]})]
  /\ pending' = IF custom THEN SuppliedError
                ELSE createGenericFailureError(Parsed.val.payload.tag)
  /\ resume' = "handler"
  /\ pc' = "send"
  /\ UNCHANGED <<codec, joiner, group, inviteHandlers, now, appData, issued, retired, ctx,
                 outcome, conversation, idx>>

HandlerReturn ==
  /\ pc = "handler"
  /\ Iterate(idx, calls)
  /\ UNCHANGED <<codec, joiner, group, inviteHandlers, now, appData, issued, retired, ctx,
                 outcome, conversation, pending, resume>>

HandlerThrow ==
  /\ pc = "handler"
  /\ pc' = "send"
  /\ calls' = [calls EXCEPT !.threw = @ + 1]
  /\ pending' = createGenericFailureError(Parsed.val.payload.tag)
  /\ resume' = "loop"
  /\ UNCHANGED <<codec, joiner, group, inviteHandlers, now, appData, issued, retired, ctx,
                 outcome, conversation, idx, ops>>

\* the delivery is over; the next DM can be taken
Finish ==
  /\ pc \in {"done", "failed"}
  /\ pc' = "idle"
  /\ ctx' = NoCtx
  /\ outcome' = "none"
  /\ conversation' = "none"
  /\ idx' = 0
  /\ ops' = 0
  /\ pending' = NoError
  /\ resume' = "none"
  /\ calls' = NoCalls
  /\ UNCHANGED <<codec, joiner, group, inviteHandlers, now, appData, issued, retired>>

\* ------------------------------------------------ clock, minting, rotation
Tick ==
  /\ pc = "idle"
  /\ now < MaxTime
  /\ now' = now + 1
  /\ UNCHANGED <<codec, joiner, group, inviteHandlers, appData, issued, retired, pc, ctx,
                 outcome, conversation, idx, ops, pending, resume, calls>>

\* ConvosMiddleware.createInvite(conversation, {inviteTag, ...}): the caller
\* names the tag
CreateInvite(conversationId, inviteTag) ==
  /\ pc = "idle"
  /\ issued' = issued \cup {<<conversationId, inviteTag>>}
  /\ UNCHANGED <<codec, joiner, group, inviteHandlers, now, appData, retired, pc, ctx,
                 outcome, conversation, idx, ops, pending, resume, calls>>

\* app_data of a group when it is wrapped: none, undecodable, metadata
\* without a tag, metadata with a tag and profiles
Names == {Undefined, "A", "B"}
Images == {Undefined, "u"}
OtherProfile == [inboxId |-> hexToBytes(OtherCreator), name |-> "A", image |-> ""]
OwnProfile == [inboxId |-> hexToBytes(SelfInbox), name |-> "A", image |-> "u"]
AppDataChoices ==
  {NoAppData, [b64 |-> GarbageBytes],
   encodeMetadata(createInitialMetadata(NoTag)),
   encodeMetadata([createInitialMetadata("t1") EXCEPT !.profiles = <<OtherProfile>>]),
   encodeMetadata([createInitialMetadata("t2") EXCEPT
                     !.profiles = <<OtherProfile, OwnProfile>>])}

\* createConvosGroup on the group KnownConv, whatever its app_data is
WrapGroup(data) ==
  /\ pc = "idle"
  /\ group.pc = "idle"
  /\ issued = {}
  /\ appData = NoAppData
  /\ appData' = data
  /\ UNCHANGED <<codec, joiner, group, inviteHandlers, now, issued, retired, pc, ctx,
                 outcome, conversation, idx, ops, pending, resume, calls>>

\* faulty variant: metadata that has a tag is replaced as well
NeedsMetadataAlways(existingAppData) == TRUE

\* createInvite creates metadata unless app_data decodes with a tag
NeedsMetadata(existingAppData) ==
  IF existingAppData # NoAppData
  THEN LET metadata == decodeMetadata(existingAppData)
       IN IF metadata.ok THEN metadata.val.tag = NoTag ELSE TRUE
  ELSE TRUE

\* ConvosGroup.createInvite on the group KnownConv: reuse the tag of the
\* stored metadata and mint, or create fresh metadata and call updateAppData
GroupCreateInvite(freshTag) ==
  /\ pc = "idle"
  /\ group.pc # "persist"
  /\ IF NeedsMetadata(appData)
     THEN /\ group' = [NoGroupCall EXCEPT
                         !.pc = "persist", !.op = "createInvite",
                         !.existingAppData = appData,
                         !.metadata = createInitialMetadata(freshTag),
                         !.updates = <<encodeMetadata(createInitialMetadata(freshTag))>>]
          /\ UNCHANGED issued
     ELSE /\ group' = [NoGroupCall EXCEPT
                         !.pc = "done", !.op = "createInvite",
                         !.existingAppData = appData,
                         !.inviteTag = decodeMetadata(appData).val.tag]
          /\ issued' = issued \cup {<<KnownConv, decodeMetadata(appData).val.tag>>}
  /\ UNCHANGED <<codec, joiner, inviteHandlers, now, appData, retired, pc, ctx, outcome,
                 conversation, idx, ops, pending, resume, calls>>

\* position of the first profile of the inbox, 0 when there is none
findIndex(profiles, inboxIdHex) ==
  IF \E i \in 1..Len(profiles) : bytesToHex(profiles[i].inboxId) = inboxIdHex
  THEN CHOOSE i \in 1..Len(profiles) :
         /\ bytesToHex(profiles[i].inboxId) = inboxIdHex
         /\ \A k \in 1..(i - 1) : bytesToHex(profiles[k].inboxId) # inboxIdHex
  ELSE 0

\* faulty variant: the profile is always appended
upsertAppends(metadata, inboxIdHex, options) ==
  [metadata EXCEPT !.profiles =
     Append(@, [inboxId |-> hexToBytes(inboxIdHex),
                name |-> options.name, image |-> options.image])]

\* replace the profile of the inbox, or append one
upsert(metadata, inboxIdHex, options) ==
  LET existingIndex == findIndex(metadata.profiles, inboxIdHex)
      profile == [inboxId |-> hexToBytes(inboxIdHex),
                  name |-> options.name, image |-> options.image]
  IN IF existingIndex > 0
     THEN [metadata EXCEPT !.profiles[existingIndex] = profile]
     ELSE [metadata EXCEPT !.profiles = Append(@, profile)]

\* ConvosGroup.setConversationProfile up to its updateAppData call
SetConversationProfile(options, freshTag) ==
  /\ pc = "idle"
  /\ group.pc # "persist"
  /\ LET decoded == decodeMetadata(appData)
         metadata == IF appData # NoAppData /\ decoded.ok THEN decoded.val
                     ELSE createInitialMetadata(freshTag)
         updated == upsert(metadata, SelfInbox, options)
     IN group' = [NoGroupCall EXCEPT
                    !.pc = "persist", !.op = "setConversationProfile",
                    !.existingAppData = appData,
                    !.options = options,
                    !.metadata = updated,
                    !.updates = <<encodeMetadata(updated)>>]
  /\ UNCHANGED <<codec, joiner, inviteHandlers, now, appData, issued, retired, pc, ctx,
                 outcome, conversation, idx, ops, pending, resume, calls>>

\* faulty variant: the invite is minted although the write has failed
UpdateAppDataMintsAnyway(ok) ==
  /\ group.pc = "persist"
  /\ appData' = IF ok THEN group.updates[Len(group.updates)] ELSE appData
  /\ IF group.op = "createInvite"
     THEN /\ group' = [group EXCEPT !.pc = "done", !.inviteTag = group.metadata.tag]
          /\ issued' = issued \cup {<<KnownConv, group.metadata.tag>>}
     ELSE /\ group' = [group EXCEPT !.pc = IF ok THEN "done" ELSE "failed"]
          /\ UNCHANGED issued
  /\ UNCHANGED <<codec, joiner, inviteHandlers, now, retired, pc, ctx, outcome,
                 conversation, idx, ops, pending, resume, calls>>

\* inner.updateAppData answers; createInvite then mints with the new tag
UpdateAppData(ok) ==
  /\ group.pc = "persist"
  /\ appData' = IF ok THEN group.updates[Len(group.updates)] ELSE appData
  /\ IF ok /\ group.op = "createInvite"
     THEN /\ group' = [group EXCEPT !.pc = "done", !.inviteTag = group.metadata.tag]
          /\ issued' = issued \cup {<<KnownConv, group.metadata.tag>>}
     ELSE /\ group' = [group EXCEPT !.pc = IF ok THEN "done" ELSE "failed"]
          /\ UNCHANGED issued
  /\ UNCHANGED <<codec, joiner, inviteHandlers, now, retired, pc, ctx, outcome,
                 conversation, idx, ops, pending, resume, calls>>

\* rotateInviteTag(current) followed by updateAppData(encodedMetadata)
RotateInviteTag(newTag) ==
  /\ pc = "idle"
  /\ group.pc # "persist"
  /\ appData # NoAppData
  /\ decodeMetadata(appData).ok
  /\ appData' = encodeMetadata(rotateInviteTag(decodeMetadata(appData).val, newTag))
  /\ retired' = retired \cup ({decodeMetadata(appData).val.tag} \ {newTag})
  /\ group' = NoGroupCall
  /\ UNCHANGED <<codec, joiner, inviteHandlers, now, issued, pc, ctx,
                 outcome, conversation, idx, ops, pending, resume, calls>>

\* a DM that carries an invite this middleware has minted
DeliverMinted(content) ==
  /\ extractText(content) \in SelfSlugs
  /\ Mintable(content)
  /\ Deliver(content, Joiner)

\* ------------------------------------------------------------- join()
\* the texts join() is called with: invites of this creator, as slug and as
\* URL, invites of other creators, and texts that are no invite
JoinInputs ==
  SelfSlugs \cup UrlTexts \cup ForeignSlugs
  \cup {createInviteSlug(InviteOptions(KnownConv, Joiner, OtherKey, "t1", NoDate, NoDate)),
        RawText([long50 |-> FALSE, slugChars |-> TRUE, b64 |-> GarbageBytes]),
        RawText([long50 |-> FALSE, slugChars |-> FALSE, b64 |-> EmptyBytes])}

\* faulty variant: an invite of the caller itself is not refused
JoinErrorNoOwnCheck(parsedInvite, inboxId, hasCreateDm) ==
  IF ~parsedInvite.ok THEN "invalid"
  ELSE IF parsedInvite.val.isExpired THEN "expired"
  ELSE IF parsedInvite.val.isConversationExpired THEN "conversationExpired"
  ELSE IF ~hasCreateDm THEN "noCreateDm"
  ELSE "none"

\* the checks of join() before its first await, in the order of the code
JoinError(parsedInvite, inboxId, hasCreateDm) ==
  IF ~parsedInvite.ok THEN "invalid"
  ELSE IF parsedInvite.val.isExpired THEN "expired"
  ELSE IF parsedInvite.val.isConversationExpired THEN "conversationExpired"
  ELSE IF parsedInvite.val.creatorInboxId = inboxId THEN "own"
  ELSE IF ~hasCreateDm THEN "noCreateDm"
  ELSE "none"

\* join(inviteUrl) of the instance with inbox inboxId, up to createDm; a
\* call starts while the creator's middleware is idle
Join(inboxId, inviteUrl, hasCreateDm) ==
  /\ pc = "idle"
  /\ joiner.pc \in {"idle", "done", "failed"}
  /\ LET parsedInvite == parseInviteSlug(inviteUrl, now)
         error == JoinError(parsedInvite, inboxId, hasCreateDm)
     IN joiner' = [NoJoin EXCEPT !.inboxId = inboxId, !.inviteUrl = inviteUrl,
                                 !.at = now, !.error = error,
                                 !.pc = IF error = "none" THEN "createDm"
                                        ELSE "failed"]
  /\ UNCHANGED <<codec, group, inviteHandlers, now, appData, issued, retired, pc, ctx,
                 outcome, conversation, idx, ops, pending, resume, calls>>

\* faulty variant: the DM is opened to the caller's own inbox
CreateDmOwnInbox(ok) ==
  /\ joiner.pc = "createDm"
  /\ joiner' = [joiner EXCEPT !.dms = Append(@, joiner.inboxId),
                              !.error = IF ok THEN "none" ELSE "createDm",
                              !.pc = IF ok THEN "send" ELSE "failed"]
  /\ UNCHANGED <<codec, group, inviteHandlers, now, appData, issued, retired, pc, ctx,
                 outcome, conversation, idx, ops, pending, resume, calls>>

\* conversations.createDm(creatorInboxId) answers
CreateDm(ok) ==
  /\ joiner.pc = "createDm"
  /\ LET creatorInboxId == parseInviteSlug(joiner.inviteUrl, joiner.at).val.creatorInboxId
     IN joiner' = [joiner EXCEPT !.dms = Append(@, creatorInboxId),
                                 !.error = IF ok THEN "none" ELSE "createDm",
                                 !.pc = IF ok THEN "send" ELSE "failed"]
  /\ UNCHANGED <<codec, group, inviteHandlers, now, appData, issued, retired, pc, ctx,
                 outcome, conversation, idx, ops, pending, resume, calls>>

\* dm.sendText(slug) or dm.send(slug) answers, then join() returns
DmSend(ok) ==
  /\ joiner.pc = "send"
  /\ LET parsedInvite == parseInviteSlug(joiner.inviteUrl, joiner.at).val
         slug == RawText(parseInviteCode(joiner.inviteUrl))
     IN joiner' = [joiner EXCEPT
                     !.sent = Append(@, slug),
                     !.error = IF ok THEN "none" ELSE "send",
                     !.pc = IF ok THEN "done" ELSE "failed",
                     !.result = IF ok
                                THEN [conversationId |->
                                        <<"toString", parsedInvite.payload.conversationToken>>,
                                      creatorInboxId |-> parsedInvite.creatorInboxId,
                                      inviteTag |-> parsedInvite.payload.tag]
                                ELSE "none"]
  /\ UNCHANGED <<codec, group, inviteHandlers, now, appData, issued, retired, pc, ctx,
                 outcome, conversation, idx, ops, pending, resume, calls>>

\* the substrate delivers the join request to the middleware of its creator
DeliverJoin ==
  /\ joiner.pc = "done"
  /\ ~joiner.delivered
  /\ joiner.dms = <<SelfInbox>>
  /\ Len(joiner.sent) = 1
  /\ joiner' = [joiner EXCEPT !.delivered = TRUE]
  /\ Receive(StringContent(joiner.sent[1]), joiner.inboxId)

\* ------------------------------------------------- the codec, applied
\* what an invite is minted from: any valid key, inbox ids in either case,
\* conversation ids of every packed form
CodecInboxes == {SelfInbox, OtherCreator, UpperInbox}
CodecConvIds == {KnownConv, EmptyConv, UpperUuid, LowerUuid, LongConv}
\* expiry instants around the clock: the epoch, and every second the clock
\* shows
CodecExpiries == {NoDate} \cup 0..MaxTime
CodecOptions ==
  {[InviteOptions(c, i, k, t, e, NoDate) EXCEPT !.expiresAfterUse = u] :
     c \in CodecConvIds, i \in CodecInboxes, k \in PrivateKeys,
     t \in Tags, e \in ExpiryChoices, u \in BOOLEAN}
  \cup {InviteOptions(KnownConv, SelfInbox, SelfKey, "t1", e, ce) :
          e \in CodecExpiries, ce \in CodecExpiries}

\* createInviteSlug(options)
Mint(options) ==
  /\ codec.did = {}
  /\ codec' = [NoInvite EXCEPT !.did = {"create"}, !.options = options,
                               !.slug = createInviteSlug(options)]
  /\ UNCHANGED <<joiner, group, inviteHandlers, now, appData, issued, retired,
                 pc, ctx, outcome, conversation, idx, ops, pending, resume, calls>>

\* what is done to the bytes of an invite: the payload or the signature is
\* altered, or the creator inbox id in the payload is replaced, keeping the
\* signature or signing again with the minting key or with another key
SignatureTampers == {"payload", "signatureLength", "recoveryByte"}
CreatorSwaps == {"creator", "creatorResigned", "creatorForged"}

Tampered(slug, kind, creatorInboxId, options) ==
  LET signed == decodeSignedInvite(decodeFromSlug(parseInviteCode(slug)).val).val
      payload == decodeInvitePayload(signed.payload).val
      altered == encodeInvitePayload(
                   IF kind = "payload" THEN [payload EXCEPT !.tag = NoTag]
                   ELSE IF kind \in CreatorSwaps
                   THEN [payload EXCEPT !.creatorInboxId = hexToBytes(creatorInboxId)]
                   ELSE payload)
      signature ==
        IF kind = "signatureLength" THEN [signed.signature EXCEPT !.len = 64]
        ELSE IF kind = "recoveryByte" THEN [signed.signature EXCEPT !.v = 4]
        ELSE IF kind = "creatorResigned"
        THEN signWithRecovery(hashSha256(altered), options.privateKey)
        ELSE IF kind = "creatorForged"
        THEN signWithRecovery(hashSha256(altered), OtherKey)
        ELSE signed.signature
  IN RawText(encodeToSlug(encodeSignedInvite(
       [payload |-> altered, signature |-> signature])))

\* the bytes of a minted invite are changed before it is parsed
Tamper(kind, creatorInboxId) ==
  /\ codec.did = {"create"}
  /\ codec.tampered = "no"
  /\ hexToBytes(creatorInboxId) # hexToBytes(codec.options.creatorInboxId)
  /\ codec' = [codec EXCEPT
                 !.tampered = kind,
                 !.slug = Tampered(codec.slug, kind, creatorInboxId, codec.options)]
  /\ UNCHANGED <<joiner, group, inviteHandlers, now, appData, issued, retired,
                 pc, ctx, outcome, conversation, idx, ops, pending, resume, calls>>

\* new ConvosMiddleware(agent, options): the base of its invite URLs
constructor(options) ==
  [inviteBaseURL |-> IF options.inviteBaseURL # Undefined
                     THEN options.inviteBaseURL
                     ELSE "https://popup.convos.org/v2"]

\* a middleware is built with these options and its createInvite returns the
\* URL of the invite
Construct(options) ==
  /\ codec.did = {}
  /\ LET slug == createInviteSlug(InviteOptions(KnownConv, SelfInbox, SelfKey, "t1",
                                                NoDate, NoDate))
     IN codec' = [NoInvite EXCEPT
                    !.did = {"construct"},
                    !.middleware = options,
                    !.slug = generateInviteURL(slug, constructor(options).inviteBaseURL)]
  /\ UNCHANGED <<joiner, group, inviteHandlers, now, appData, issued, retired,
                 pc, ctx, outcome, conversation, idx, ops, pending, resume, calls>>

\* the minted slug put into a URL: as a query parameter i or code or as the
\* last path segment, the other places empty or holding another string
Wrap(i, code, path) ==
  /\ codec.did = {"create"}
  /\ codec.tampered = "no"
  /\ codec' = [codec EXCEPT
                 !.did = @ \cup {"wrap"},
                 !.slug = [generateInviteURL(codec.slug, CustomBase) EXCEPT
                             !.i = i, !.code = code, !.path = path]]
  /\ UNCHANGED <<joiner, group, inviteHandlers, now, appData, issued, retired,
                 pc, ctx, outcome, conversation, idx, ops, pending, resume, calls>>

\* parseInviteSlug(slug)
Parse ==
  /\ "create" \in codec.did
  /\ "parse" \notin codec.did
  /\ codec' = [codec EXCEPT !.did = @ \cup {"parse"}, !.at = now,
                            !.parsed = parseInviteSlug(codec.slug, now)]
  /\ UNCHANGED <<joiner, group, inviteHandlers, now, appData, issued, retired,
                 pc, ctx, outcome, conversation, idx, ops, pending, resume, calls>>

\* verifyInviteWithPrivateKey(parsed.signedInvite, privateKey)
Verify(privateKey) ==
  /\ "parse" \in codec.did
  /\ codec.parsed.ok
  /\ "verify" \notin codec.did
  /\ codec' = [codec EXCEPT
                 !.did = @ \cup {"verify"},
                 !.verifyKey = privateKey,
                 !.verified = verifyInviteWithPrivateKey(
                                codec.parsed.val.signedInvite, privateKey)]
  /\ UNCHANGED <<joiner, group, inviteHandlers, now, appData, issued, retired,
                 pc, ctx, outcome, conversation, idx, ops, pending, resume, calls>>

\* decryptInviteConversationId(parsed, privateKey)
Decrypt(privateKey) ==
  /\ "parse" \in codec.did
  /\ codec.parsed.ok
  /\ "decrypt" \notin codec.did
  /\ codec' = [codec EXCEPT
                 !.did = @ \cup {"decrypt"},
                 !.decryptKey = privateKey,
                 !.decrypted = decryptInviteConversationId(
                                 codec.parsed.val, privateKey)]
  /\ UNCHANGED <<joiner, group, inviteHandlers, now, appData, issued, retired,
                 pc, ctx, outcome, conversation, idx, ops, pending, resume, calls>>

\* byte strings of every case of the compression: first byte the marker or
\* not; shorter than the threshold, at it, above it and at the size limit;
\* deflating to less or not; the rest a zlib stream or not
Shapes == {<<1, 9>>, <<5, 13>>, <<99, 30>>, <<100, 98>>, <<100, 99>>,
           <<500, 20>>, <<300, 311>>, <<MAX_DECOMPRESSED_SIZE, 1100>>}
ByteStrings ==
  {EmptyBytes} \cup
  {RawBytes(first, shape[1], shape[2], inflated) :
     first \in {66, COMPRESSION_MARKER}, shape \in Shapes,
     inflated \in {Threw, Ok(EmptyBytes), Ok(RawBytes(66, 5, 13, Threw))}}

\* encodeToSlug(data)
EncodeToSlug(data) ==
  /\ codec.did = {}
  /\ codec' = [NoInvite EXCEPT !.did = {"encode"}, !.data = data,
                               !.slug = RawText(encodeToSlug(data))]
  /\ UNCHANGED <<joiner, group, inviteHandlers, now, appData, issued, retired,
                 pc, ctx, outcome, conversation, idx, ops, pending, resume, calls>>

\* decodeFromSlug(slug)
DecodeFromSlug ==
  /\ "encode" \in codec.did
  /\ "decode" \notin codec.did
  /\ codec' = [codec EXCEPT !.did = @ \cup {"decode"},
                            !.decoded = decodeFromSlug(codec.slug.raw)]
  /\ UNCHANGED <<joiner, group, inviteHandlers, now, appData, issued, retired,
                 pc, ctx, outcome, conversation, idx, ops, pending, resume, calls>>

\* metadata values: any tag, profiles with and without name and image,
\* with and without expiry and image encryption key
MetadataValues ==
  {[tag |-> tag, profiles |-> profiles,
    expiresAtUnix |-> expiresAtUnix, imageEncryptionKey |-> imageEncryptionKey] :
     tag \in Tags \cup {NoTag},
     profiles \in {<< >>, <<OtherProfile, OwnProfile>>} \cup
                  {<<[inboxId |-> hexToBytes(SelfInbox), name |-> name, image |-> image]>> :
                     name \in Names, image \in Images},
     expiresAtUnix \in {NoDate, 0, 1},
     imageEncryptionKey \in {Undefined, "", "ik"}}

\* encodeMetadata(metadata)
EncodeMetadata(metadata) ==
  /\ codec.did = {}
  /\ codec' = [NoInvite EXCEPT !.did = {"encodeMetadata"}, !.metadata = metadata,
                               !.encoded = encodeMetadata(metadata)]
  /\ UNCHANGED <<joiner, group, inviteHandlers, now, appData, issued, retired,
                 pc, ctx, outcome, conversation, idx, ops, pending, resume, calls>>

\* decodeMetadata(encoded) and getInviteTag(encoded)
DecodeMetadata ==
  /\ "encodeMetadata" \in codec.did
  /\ "decodeMetadata" \notin codec.did
  /\ codec' = [codec EXCEPT !.did = @ \cup {"decodeMetadata"},
                            !.decodedMetadata = decodeMetadata(codec.encoded),
                            !.inviteTag = getInviteTag(codec.encoded)]
  /\ UNCHANGED <<joiner, group, inviteHandlers, now, appData, issued, retired,
                 pc, ctx, outcome, conversation, idx, ops, pending, resume, calls>>

\* encodeInviteJoinError(error), by this version or by a sender whose
\* version knows one more error type
EncodeInviteJoinError(error) ==
  /\ codec.did = {}
  /\ codec' = [NoInvite EXCEPT !.did = {"encodeError"}, !.error = error]
  /\ UNCHANGED <<joiner, group, inviteHandlers, now, appData, issued, retired,
                 pc, ctx, outcome, conversation, idx, ops, pending, resume, calls>>

\* decodeInviteJoinError(data) at the receiver
DecodeInviteJoinError ==
  /\ codec.did = {"encodeError"}
  /\ codec' = [codec EXCEPT
                 !.did = @ \cup {"decodeError"},
                 !.decodedError = decodeInviteJoinError(encodeInviteJoinError(codec.error))]
  /\ UNCHANGED <<joiner, group, inviteHandlers, now, appData, issued, retired,
                 pc, ctx, outcome, conversation, idx, ops, pending, resume, calls>>

\* rotateInviteTag(metadata); the random bytes are all of one value
Rotate(bytes) ==
  /\ "encodeMetadata" \in codec.did
  /\ "rotate" \notin codec.did
  /\ codec' = [codec EXCEPT
                 !.did = @ \cup {"rotate"},
                 !.rotated = rotateInviteTag(codec.metadata, generateInviteTag(bytes))]
  /\ UNCHANGED <<joiner, group, inviteHandlers, now, appData, issued, retired,
                 pc, ctx, outcome, conversation, idx, ops, pending, resume, calls>>

\* the next invite
Discard ==
  /\ codec.did # {}
  /\ codec' = NoInvite
  /\ UNCHANGED <<joiner, group, inviteHandlers, now, appData, issued, retired,
                 pc, ctx, outcome, conversation, idx, ops, pending, resume, calls>>

\* one handler, registered once
Register ==
  /\ inviteHandlers = << >>
  /\ On("h1")

\* DM deliveries of arbitrary content, with handler registration and the clock
Next ==
  \/ \E h \in Handlers : On(h)
  \/ \E h \in Handlers : Off(h)
  \/ \E c \in Contents, s \in Senders : Deliver(c, s)
  \/ \E ok \in BOOLEAN : CallNext(ok)
  \/ \E ok \in BOOLEAN : RefreshConsentList(ok)
  \/ \E ok \in BOOLEAN : Block(ok)
  \/ \E ok \in BOOLEAN : SendError(ok)
  \/ \E ok \in BOOLEAN : Lookup(ok)
  \/ HandlerAccept
  \/ \E r \in {"ok", "caught", "escapes"} : AddMembers(r)
  \/ \E custom \in BOOLEAN : HandlerReject(custom)
  \/ HandlerReturn
  \/ HandlerThrow
  \/ Finish
  \/ Tick

Spec == Init /\ [][Next]_vars

\* minting and tag rotation on the group, and deliveries of minted invites
NextTags ==
  \/ Register
  \/ \E c \in ConvIds, t \in Tags : CreateInvite(c, t)
  \/ \E t \in Tags : GroupCreateInvite(t)
  \/ \E ok \in BOOLEAN : UpdateAppData(ok)
  \/ \E t \in Tags : RotateInviteTag(t)
  \/ \E c \in Contents : DeliverMinted(c)
  \/ \E ok \in BOOLEAN : SendError(ok)
  \/ \E ok \in BOOLEAN : Lookup(ok)
  \/ HandlerAccept
  \/ \E r \in {"ok", "caught", "escapes"} : AddMembers(r)
  \/ \E custom \in BOOLEAN : HandlerReject(custom)
  \/ HandlerReturn
  \/ HandlerThrow
  \/ Finish

SpecTags == Init /\ [][NextTags]_vars

\* join() calls of another instance, and the delivery of its join requests
NextJoin ==
  \/ Register
  \/ \E i \in Senders, t \in JoinInputs, d \in BOOLEAN : Join(i, t, d)
  \/ \E ok \in BOOLEAN : CreateDm(ok)
  \/ \E ok \in BOOLEAN : DmSend(ok)
  \/ DeliverJoin
  \/ \E ok \in BOOLEAN : RefreshConsentList(ok)
  \/ \E ok \in BOOLEAN : Block(ok)
  \/ \E ok \in BOOLEAN : SendError(ok)
  \/ \E ok \in BOOLEAN : Lookup(ok)
  \/ HandlerAccept
  \/ \E r \in {"ok", "caught", "escapes"} : AddMembers(r)
  \/ HandlerReturn
  \/ HandlerThrow
  \/ Finish
  \/ Tick

SpecJoin == Init /\ [][NextJoin]_vars

\* the calls an application makes on the ConvosGroup of the group KnownConv
NextGroup ==
  \/ \E data \in AppDataChoices : WrapGroup(data)
  \/ \E t \in Tags : GroupCreateInvite(t)
  \/ \E n \in Names, i \in Images, t \in Tags :
        SetConversationProfile([name |-> n, image |-> i], t)
  \/ \E ok \in BOOLEAN : UpdateAppData(ok)
  \/ \E t \in Tags : RotateInviteTag(t)

SpecGroup == Init /\ [][NextGroup]_vars

\* the functions of the invite codec, applied to minted invites
NextCodec ==
  \/ \E options \in CodecOptions : Mint(options)
  \/ \E kind \in SignatureTampers \cup CreatorSwaps, i \in CodecInboxes : Tamper(kind, i)
  \/ \E i, code, path \in {EmptyCode, codec.slug.raw, lastSegment(getInviteBaseURL("dev"))} :
       Wrap(i, code, path)
  \/ Parse
  \/ \E k \in PrivateKeys \cup {InvalidKey} : Verify(k)
  \/ \E k \in PrivateKeys : Decrypt(k)
  \/ \E data \in ByteStrings : EncodeToSlug(data)
  \/ DecodeFromSlug
  \/ \E env \in {Undefined, "dev", "local", "production"},
        inviteBaseURL \in {Undefined, CustomBase} :
       Construct([env |-> env, inviteBaseURL |-> inviteBaseURL])
  \/ \E errorType \in InviteJoinErrorType \cup {"rateLimited"},
        inviteTag \in Tags \cup {NoTag}, timestamp \in 0..MaxTime :
       EncodeInviteJoinError([errorType |-> errorType, inviteTag |-> inviteTag,
                              timestamp |-> timestamp])
  \/ DecodeInviteJoinError
  \/ \E metadata \in MetadataValues : EncodeMetadata(metadata)
  \/ DecodeMetadata
  \/ \E b \in {0, 61, 62, 255} : Rotate([i \in 1..10 |-> b])
  \/ Discard
  \/ Tick

SpecCodec == Init /\ [][NextCodec]_vars

\* ------------------------------------- the legacy JoinRequestHandler
\* JoinRequestHandler.processMessage of a handler with the inbox and the
\* key of the middleware; conversationExists: the optional callback, given or
\* not, with the ids it answers true for; onJoinRequest: absent, or what
\* it does
processMessage(messageText, senderInboxId, conversationExists, onJoinRequest) ==
  LET parsedInvite == parseInviteSlug(messageText, now)
      inviteTag == parsedInvite.val.payload.tag
      verified == verifyInviteWithPrivateKey(parsedInvite.val.signedInvite, SelfKey)
      conversationId == decryptInviteConversationId(parsedInvite.val, SelfKey)
  IN IF senderInboxId = SelfInbox
     THEN [result |-> "not_join_request", error |-> NoError]
     ELSE IF ~parsedInvite.ok
     THEN (IF looksLikeInviteSlug(messageText)
           THEN [result |-> "block", error |-> NoError]
           ELSE [result |-> "not_join_request", error |-> NoError])
     ELSE IF parsedInvite.val.creatorInboxId # SelfInbox
     THEN [result |-> "block", error |-> NoError]
     ELSE IF ~verified.ok
     THEN [result |-> "threw", error |-> NoError]
     ELSE IF ~verified.val
     THEN [result |-> "block", error |-> NoError]
     ELSE IF parsedInvite.val.isExpired
     THEN [result |-> "error", error |-> createConversationExpiredError(inviteTag)]
     ELSE IF parsedInvite.val.isConversationExpired
     THEN [result |-> "error", error |-> createConversationExpiredError(inviteTag)]
     ELSE IF ~conversationId.ok
     THEN [result |-> "block", error |-> NoError]
     ELSE IF conversationExists.given /\ conversationId.val \notin conversationExists.ids
     THEN [result |-> "error", error |-> createConversationExpiredError(inviteTag)]
     ELSE IF onJoinRequest \in {"false", "throws"}
     THEN [result |-> "error", error |-> createGenericFailureError(inviteTag)]
     ELSE [result |-> "success", error |-> NoError]

\* ------------------------------------------- two calls on one group
\* the first call starts when no other call is in flight
FirstCreateInvite(freshTag) ==
  /\ group.second.pc # "persist"
  /\ GroupCreateInvite(freshTag)

FirstSetConversationProfile(options, freshTag) ==
  /\ group.second.pc # "persist"
  /\ SetConversationProfile(options, freshTag)

\* ConvosGroup.createInvite called while the first call awaits updateAppData
SecondCreateInvite(freshTag) ==
  /\ pc = "idle"
  /\ group.pc = "persist"
  /\ group.second.pc = "idle"
  /\ IF NeedsMetadata(appData)
     THEN /\ group' = [group EXCEPT !.second = [NoSecondCall EXCEPT
                         !.pc = "persist", !.op = "createInvite",
                         !.existingAppData = appData,
                         !.metadata = createInitialMetadata(freshTag),
                         !.updates = <<encodeMetadata(createInitialMetadata(freshTag))>>]]
          /\ UNCHANGED issued
     ELSE /\ group' = [group EXCEPT !.second = [NoSecondCall EXCEPT
                         !.pc = "done", !.op = "createInvite",
                         !.existingAppData = appData,
                         !.inviteTag = decodeMetadata(appData).val.tag]]
          /\ issued' = issued \cup {<<KnownConv, decodeMetadata(appData).val.tag>>}
  /\ UNCHANGED <<codec, joiner, inviteHandlers, now, appData, retired, pc, ctx, outcome,
                 conversation, idx, ops, pending, resume, calls>>

\* ConvosGroup.setConversationProfile called while the first call awaits
\* updateAppData
SecondSetConversationProfile(options, freshTag) ==
  /\ pc = "idle"
  /\ group.pc = "persist"
  /\ group.second.pc = "idle"
  /\ LET decoded == decodeMetadata(appData)
         metadata == IF appData # NoAppData /\ decoded.ok THEN decoded.val
                     ELSE createInitialMetadata(freshTag)
         updated == upsert(metadata, SelfInbox, options)
     IN group' = [group EXCEPT !.second = [NoSecondCall EXCEPT
                    !.pc = "persist", !.op = "setConversationProfile",
                    !.existingAppData = appData,
                    !.metadata = updated,
                    !.updates = <<encodeMetadata(updated)>>]]
  /\ UNCHANGED <<codec, joiner, inviteHandlers, now, appData, issued, retired, pc, ctx,
                 outcome, conversation, idx, ops, pending, resume, calls>>

\* inner.updateAppData of the second call answers
UpdateAppDataSecond(ok) ==
  /\ group.second.pc = "persist"
  /\ appData' = IF ok THEN group.second.updates[1] ELSE appData
  /\ IF ok /\ group.second.op = "createInvite"
     THEN /\ group' = [group EXCEPT !.second.pc = "done",
                                    !.second.inviteTag = group.second.metadata.tag]
          /\ issued' = issued \cup {<<KnownConv, group.second.metadata.tag>>}
     ELSE /\ group' = [group EXCEPT !.second.pc = IF ok THEN "done" ELSE "failed"]
          /\ UNCHANGED issued
  /\ UNCHANGED <<codec, joiner, inviteHandlers, now, retired, pc, ctx, outcome,
                 conversation, idx, ops, pending, resume, calls>>

\* createInvite and setConversationProfile calls on the group KnownConv,
\* up to two of them in flight
NextRace ==
  \/ \E data \in AppDataChoices : WrapGroup(data)
  \/ \E t \in Tags : FirstCreateInvite(t)
  \/ \E n \in Names, i \in Images, t \in Tags :
        FirstSetConversationProfile([name |-> n, image |-> i], t)
  \/ \E t \in Tags : SecondCreateInvite(t)
  \/ \E n \in Names, i \in Images, t \in Tags :
        SecondSetConversationProfile([name |-> n, image |-> i], t)
  \/ \E ok \in BOOLEAN : UpdateAppData(ok)
  \/ \E ok \in BOOLEAN : UpdateAppDataSecond(ok)

SpecRace == Init /\ [][NextRace]_vars

\* ------------------------------------------------ one invite, many DMs
\* a valid invite of this middleware for KnownConv, with and without
\* expiresAfterUse
ReusedContents ==
  {StringContent(createInviteSlug(
     [InviteOptions(KnownConv, SelfInbox, SelfKey, "t1", NoDate, NoDate)
        EXCEPT !.expiresAfterUse = u])) : u \in BOOLEAN}

\* the same invite arrives again, from the same or from another sender
DeliverAgain(content, sender) ==
  /\ inviteHandlers # << >>
  /\ Deliver(content, sender)

\* the delivery is over and the log keeps whom accept() has added
FinishRecorded ==
  /\ pc \in {"done", "failed"}
  /\ pc' = "idle"
  /\ ctx' = NoCtx
  /\ outcome' = "none"
  /\ conversation' = "none"
  /\ idx' = 0
  /\ ops' = 0
  /\ pending' = NoError
  /\ resume' = "none"
  /\ calls' = [NoCalls EXCEPT !.earlier =
                 IF calls.added THEN calls.earlier \cup {<<ctx.content, ctx.sender>>}
                 ELSE calls.earlier]
  /\ UNCHANGED <<codec, joiner, group, inviteHandlers, now, appData, issued, retired>>

\* deliveries of one valid invite, over and over
NextReuse ==
  \/ Register
  \/ \E c \in ReusedContents, s \in Inboxes \ {SelfInbox} : DeliverAgain(c, s)
  \/ \E ok \in BOOLEAN : SendError(ok)
  \/ \E ok \in BOOLEAN : Lookup(ok)
  \/ HandlerAccept
  \/ \E r \in {"ok", "caught", "escapes"} : AddMembers(r)
  \/ \E custom \in BOOLEAN : HandlerReject(custom)
  \/ HandlerReturn
  \/ HandlerThrow
  \/ FinishRecorded

SpecReuse == Init /\ [][NextReuse]_vars

\* ================================================================ claims
\* the text of the DM in flight
DMText == extractText(ctx.content)

\* the parsed invite names this inbox as creator and carries the signature
\* this middleware's private key makes over its payload
Authentic(parsedInvite) ==
  /\ parsedInvite.creatorInboxId = SelfInbox
  /\ parsedInvite.signedInvite.signature =
       signWithRecovery(hashSha256(parsedInvite.signedInvite.payload), SelfKey)

\* a DM of another inbox with a text, which the middleware therefore parses
TextFromOther == pc # "idle" /\ ctx.sender # SelfInbox /\ ~DMText.empty

NothingSent == calls.send = EmptyBag
NobodyBlocked == calls.refresh = 0 /\ calls.block = << >>
ExpiredErrorFor(tag) ==
  SetToBag({[errorType |-> "conversationExpired", inviteTag |-> tag]})

\* C1: invite handlers are invoked for a DM only if the sender is not the
\* own inbox, the text parses as a signed invite whose creator is the own
\* inbox, the signature verifies against the public key of the own private
\* key, neither expiry flag is set, the conversation token decrypts, and the
\* substrate returns a conversation for the decrypted id.
C1_HandlersOnlyForValidJoinRequests ==
  calls.handler # << >> =>
    LET p == Parsed
        id == decryptInviteConversationId(p.val, SelfKey)
    IN /\ ctx.sender # SelfInbox
       /\ ~DMText.empty
       /\ p.ok
       /\ p.val.creatorInboxId = SelfInbox
       /\ verifyInvite(p.val.signedInvite, getPublicKey(SelfKey).val)
       /\ ~p.val.isExpired
       /\ ~p.val.isConversationExpired
       /\ id.ok
       /\ getConversationById(id.val) # "null"

\* two handlers have been invoked for a join request sent as a URL
C1_Witness ==
  /\ pc = "handler"
  /\ Len(calls.handler) = 2
  /\ DMText.url

\* C2: once the tag of a conversation has been rotated and the new metadata
\* persisted, a join request carrying an invite with the previous tag
\* produces no invite event and no admission.
C2_RotatedInviteUnusable ==
  ( /\ pc # "idle"
    /\ Parsed.ok
    /\ decryptInviteConversationId(Parsed.val, SelfKey) = Ok(KnownConv)
    /\ <<KnownConv, Parsed.val.payload.tag>> \in issued
    /\ Parsed.val.payload.tag \in retired
    /\ decodeMetadata(appData).ok
    /\ decodeMetadata(appData).val.tag # Parsed.val.payload.tag )
  => calls.handler = << >> /\ calls.addMembers = << >>

\* C3: a delivery that completes has taken exactly one of pass-through,
\* block sender, send error and invite event; next() has been called once
\* after a pass-through and not at all after the other three.
C3_ExactlyOneOutcome ==
  pc = "done" =>
    /\ outcome \in {"pass", "block", "error", "invite"}
    /\ outcome = "pass" =>
         /\ calls.next = 1
         /\ NobodyBlocked /\ NothingSent /\ calls.handler = << >>
    /\ outcome = "block" =>
         /\ calls.next = 0
         /\ calls.refresh = 1 /\ NothingSent /\ calls.handler = << >>
    /\ outcome = "error" =>
         /\ calls.next = 0
         /\ NobodyBlocked /\ BagCardinality(calls.send) = 1
         /\ calls.handler = << >>
    /\ outcome = "invite" =>
         /\ calls.next = 0
         /\ NobodyBlocked

\* an invite event that reached two handlers has completed without next()
C3_Witness ==
  /\ pc = "done"
  /\ outcome = "invite"
  /\ Len(calls.handler) = 2
  /\ calls.next = 0

\* C4: a DM from another inbox whose text is not the serialization of a
\* signed invite blocks the sender if and only if the trimmed text has at
\* least 50 characters, all of them slug characters; in every other case it
\* is passed through: next() runs, no handler runs, nobody is blocked and
\* nothing is sent.
C4_NonInviteTextBlockedIffSlugLike ==
  ( /\ pc = "done"
    /\ ctx.sender # SelfInbox
    /\ ~DMText.empty
    /\ LET b == parseInviteCode(DMText).b64
       IN ~(Len(b) = 2 /\ b[1][1] = 1 /\ b[2][1] = 2) )
  => IF DMText.raw.long50 /\ DMText.raw.slugChars
     THEN calls.refresh = 1 /\ calls.next = 0
     ELSE /\ calls.next = 1
          /\ calls.handler = << >>
          /\ NobodyBlocked
          /\ NothingSent

\* C5: a DM whose sender is the own inbox is always passed through, even
\* when its text is a valid unexpired invite of this middleware: next() is
\* called, no handler runs, nobody is blocked and no error is sent.
C5_OwnMessagesPassThrough ==
  (pc # "idle" /\ ctx.sender = SelfInbox) =>
    /\ pc \in {"next", "done", "failed"}
    /\ pc # "next" => calls.next = 1
    /\ calls.handler = << >>
    /\ NobodyBlocked
    /\ NothingSent

\* the own inbox has sent a valid unexpired invite for a known conversation
\* and the delivery has completed
C5_Witness ==
  /\ pc = "done"
  /\ ctx.sender = SelfInbox
  /\ Parsed.ok
  /\ Authentic(Parsed.val)
  /\ ~Parsed.val.isExpired /\ ~Parsed.val.isConversationExpired
  /\ decryptInviteConversationId(Parsed.val, SelfKey) = Ok(KnownConv)
  /\ calls.next = 1

\* C6: a DM of another inbox carrying a parsed invite whose creator is not
\* the own inbox, or whose signature the own private key did not make, ends
\* in BlockSender for the sender of the DM: the consent list is refreshed
\* once, then block is called with exactly the sender; no handler runs, no
\* error is sent, next() is not called.
C6_UnauthenticInviteBlocksSender ==
  (TextFromOther /\ LET p == Parsed IN p.ok /\ ~Authentic(p.val)) =>
    /\ pc \in {"refresh", "block", "done"}
    /\ calls.refresh = (IF pc = "refresh" THEN 0 ELSE 1)
    /\ pc = "block" => calls.refreshed /\ calls.block = << >>
    /\ pc = "done" /\ calls.refreshed => calls.block = <<ctx.sender>>
    /\ calls.block # << >> => calls.refreshed /\ calls.block = <<ctx.sender>>
    /\ calls.handler = << >>
    /\ NothingSent
    /\ calls.next = 0

\* the sender of an invite signed by a foreign key in the name of this
\* inbox has been blocked
C6_Witness ==
  /\ pc = "done"
  /\ TextFromOther
  /\ Parsed.ok
  /\ Parsed.val.creatorInboxId = SelfInbox
  /\ ~Authentic(Parsed.val)
  /\ calls.block = <<Joiner>>
  /\ calls.blocked

\* C7: a DM carrying an authentic invite of this creator that is expired,
\* conversation-expired or both has exactly one ConversationExpired error
\* with the tag of the invite sent on the DM; no handler is called, the
\* sender is not blocked, next() is not called.
C7_ExpiredInviteSendsOneError ==
  ( /\ TextFromOther
    /\ LET p == Parsed
       IN /\ p.ok
          /\ Authentic(p.val)
          /\ p.val.isExpired \/ p.val.isConversationExpired )
  => /\ pc \in {"send", "done"}
     /\ pc = "send" => NothingSent
     /\ pc = "done" => calls.send = ExpiredErrorFor(Parsed.val.payload.tag)
     /\ calls.handler = << >>
     /\ NobodyBlocked
     /\ calls.next = 0

\* an invite past both of its expiry instants has been answered
C7_Witness ==
  /\ pc = "done"
  /\ TextFromOther
  /\ Parsed.ok
  /\ Authentic(Parsed.val)
  /\ Parsed.val.isExpired /\ Parsed.val.isConversationExpired
  /\ BagCardinality(calls.send) = 1

\* C8: an authentic, unexpired invite that decrypts to a conversation id
\* the substrate has no conversation for is answered with one
\* ConversationExpired error on the DM; no handler is called, addMembers is
\* never invoked, next() is not called.
C8_UnknownConversationSendsOneError ==
  ( /\ TextFromOther
    /\ pc \notin {"lookup", "failed"}
    /\ LET p == Parsed
           id == decryptInviteConversationId(p.val, SelfKey)
       IN /\ p.ok
          /\ Authentic(p.val)
          /\ ~p.val.isExpired /\ ~p.val.isConversationExpired
          /\ id.ok
          /\ getConversationById(id.val) = "null" )
  => /\ pc \in {"send", "done"}
     /\ pc = "send" => NothingSent
     /\ pc = "done" => calls.send = ExpiredErrorFor(Parsed.val.payload.tag)
     /\ calls.handler = << >>
     /\ calls.accept = 0 /\ calls.addMembers = << >>
     /\ NobodyBlocked
     /\ calls.next = 0

\* an invite for the unknown conversation has been answered while a
\* handler was registered
C8_Witness ==
  /\ pc = "done"
  /\ TextFromOther
  /\ Parsed.ok
  /\ Authentic(Parsed.val)
  /\ decryptInviteConversationId(Parsed.val, SelfKey) = Ok(UnknownConv)
  /\ inviteHandlers # << >>
  /\ BagCardinality(calls.send) = 1

\* C9: for a valid join request every registered handler is invoked; stated
\* for the handlers that were registered before the event was raised and
\* are still registered when its dispatch has completed.
C9_EveryRegisteredHandlerInvoked ==
  (pc = "done" /\ outcome = "invite" /\ ~calls.grew) =>
    \A i \in 1..Len(inviteHandlers) :
      \E j \in 1..Len(calls.handler) : calls.handler[j] = inviteHandlers[i]

\* C10: for a valid join request every accept() invokes addMembers exactly
\* once, with exactly the inbox id of the DM sender, on the conversation the
\* substrate returned for the decrypted id; without accept() addMembers is
\* never invoked.
C10_AcceptAddsSenderOnce ==
  /\ Len(calls.addMembers) =
       calls.accept - (IF pc = "addMembers" THEN 1 ELSE 0)
  /\ calls.addMembers # << >> =>
       /\ outcome = "invite"
       /\ \A i \in 1..Len(calls.addMembers) :
            calls.addMembers[i] =
              <<getConversationById(
                  decryptInviteConversationId(Parsed.val, SelfKey).val),
                ctx.sender>>

\* two handlers have accepted the same join request
C10_Witness ==
  /\ pc = "done"
  /\ calls.accept = 2
  /\ calls.addMembers = << <<KnownConv, Joiner>>, <<KnownConv, Joiner>> >>

\* C11: when the dispatch of a valid join request has completed, the errors
\* sent on the DM are exactly one per reject() call, the supplied error when
\* one was given and otherwise GenericFailure with the tag of the invite,
\* plus one GenericFailure per handler that threw; reject() invokes neither
\* addMembers nor block.
C11_RejectSendsOneError ==
  (pc = "done" /\ outcome = "invite") =>
    LET tag == Parsed.val.payload.tag
        generic == [errorType |-> "genericFailure", inviteTag |-> tag]
        withError == CopiesIn([given |-> TRUE, error |-> SuppliedError],
                              calls.reject)
        withoutError == CopiesIn([given |-> FALSE, error |-> NoError],
                                 calls.reject)
    IN /\ BagCardinality(calls.send) =
            BagCardinality(calls.reject) + calls.threw
       /\ CopiesIn(SuppliedError, calls.send) = withError
       /\ CopiesIn(generic, calls.send) = withoutError + calls.threw
       /\ Len(calls.addMembers) <= calls.accept
       /\ NobodyBlocked

\* one handler has rejected with an error of its own and another one without
C11_Witness ==
  /\ pc = "done"
  /\ outcome = "invite"
  /\ calls.accept = 0
  /\ calls.threw = 0
  /\ calls.reject = SetToBag({[given |-> TRUE, error |-> SuppliedError],
                              [given |-> FALSE, error |-> NoError]})
  /\ BagCardinality(calls.send) = 2

\* C12: when a handler of a valid join request throws, one GenericFailure
\* with the tag of the invite is sent for it, the handlers registered before
\* the event and still registered afterwards are all invoked, and the
\* middleware call ends handled, without next().
C12_ThrowingHandlerContained ==
  (pc = "done" /\ outcome = "invite" /\ calls.threw > 0 /\ ~calls.grew) =>
    /\ CopiesIn(createGenericFailureError(Parsed.val.payload.tag), calls.send)
         >= calls.threw
    /\ calls.next = 0
    /\ \A i \in 1..Len(inviteHandlers) :
         \E j \in 1..Len(calls.handler) : calls.handler[j] = inviteHandlers[i]

C14_JoinReachesCreatorHandlers ==
  LET codes == {createInviteSlug(
                  InviteOptions(KnownConv, SelfInbox, SelfKey, t, e, ce)).raw :
                    t \in Tags, e \in ExpiryChoices, ce \in ExpiryChoices}
  IN (/\ joiner.inboxId # SelfInbox
      /\ ~joiner.inviteUrl.empty
      /\ parseInviteCode(joiner.inviteUrl) \in codes
      /\ joiner.pc = "done")
     => /\ joiner.dms = <<SelfInbox>>
        /\ joiner.sent = <<RawText(parseInviteCode(joiner.inviteUrl))>>
        /\ (/\ joiner.delivered
            /\ pc = "done"
            /\ ~Parsed.val.isExpired
            /\ ~Parsed.val.isConversationExpired)
           => /\ outcome = "invite"
              /\ ctx.sender = joiner.inboxId
              /\ conversation = KnownConv
              /\ calls.next = 0
              /\ (inviteHandlers # << >> /\ ~calls.grew)
                   => calls.handler # << >>

\* the join request made from the URL of an invite has reached a handler
C14_Witness ==
  /\ joiner.pc = "done"
  /\ joiner.inviteUrl \in UrlTexts
  /\ joiner.inboxId = Joiner
  /\ joiner.delivered
  /\ pc = "done"
  /\ outcome = "invite"
  /\ conversation = KnownConv
  /\ calls.handler = <<"h1">>

\* the metadata a call of the group has read, and what is stored now
ExistingMetadata == decodeMetadata(group.existingAppData)
HasTag(data) ==
  data # NoAppData /\ decodeMetadata(data).ok /\ decodeMetadata(data).val.tag # NoTag
IsOther(p) == bytesToHex(p.inboxId) # SelfInbox
IsOwn(p) == bytesToHex(p.inboxId) = SelfInbox

\* C15: a createInvite on a group whose app_data decodes with a non-empty
\* tag returns at once an invite with that tag and calls updateAppData not
\* at all; and the stored tag, once there is one, is replaced by no step
\* but a rotation.
C15_CreateInviteReusesTag ==
  /\ [](( /\ group.op = "createInvite"
          /\ HasTag(group.existingAppData) )
        => /\ group.pc = "done"
           /\ group.updates = << >>
           /\ group.inviteTag = ExistingMetadata.val.tag
           /\ <<KnownConv, ExistingMetadata.val.tag>> \in issued)
  /\ [][ HasTag(appData) =>
           /\ HasTag(appData')
           /\ \/ decodeMetadata(appData').val.tag = decodeMetadata(appData).val.tag
              \/ decodeMetadata(appData).val.tag \in retired' ]_vars

\* an invite was minted on a group wrapped with metadata, tag and profiles
C15_Witness ==
  /\ group.op = "createInvite"
  /\ group.pc = "done"
  /\ group.existingAppData =
       encodeMetadata([createInitialMetadata("t1") EXCEPT !.profiles = <<OtherProfile>>])
  /\ appData = group.existingAppData
  /\ group.inviteTag = "t1"
  /\ issued = {<<KnownConv, "t1">>}

C17_ProfileUpsert ==
  ( /\ group.op = "setConversationProfile"
    /\ group.pc = "done" )
  => LET after == decodeMetadata(appData)
         own == SelectSeq(after.val.profiles, IsOwn)
     IN /\ after.ok
        /\ Len(own) = 1
        /\ own[1].name = (IF group.options.name = Undefined THEN ""
                          ELSE group.options.name)
        /\ own[1].image = (IF group.options.image = Undefined THEN ""
                           ELSE group.options.image)
        /\ (group.existingAppData # NoAppData /\ ExistingMetadata.ok)
             => /\ after.val.tag = ExistingMetadata.val.tag
                /\ SelectSeq(after.val.profiles, IsOther) =
                     SelectSeq(ExistingMetadata.val.profiles, IsOther)

\* the agent's profile was replaced, next to the profile of another inbox
C17_Witness ==
  /\ group.op = "setConversationProfile"
  /\ group.pc = "done"
  /\ group.options = [name |-> "B", image |-> Undefined]
  /\ ExistingMetadata.ok
  /\ ExistingMetadata.val.profiles = <<OtherProfile, OwnProfile>>
  /\ decodeMetadata(appData).val.profiles =
       <<OtherProfile, [OwnProfile EXCEPT !.name = "B", !.image = ""]>>

\* C18: an invite that createInviteSlug has made parses to a payload with
\* the tag, the creator inbox id and the expiresAfterUse flag it was made
\* from; verifyInviteWithPrivateKey with the minting key returns true; and
\* decryptInviteConversationId with the minting key returns the conversation
\* id, in lower case when it is a UUID.
C18_CreateParseRoundTrip ==
  (codec.tampered = "no" /\ "parse" \in codec.did) =>
    /\ codec.parsed.ok
    /\ codec.parsed.val.payload.tag = codec.options.inviteTag
    /\ codec.parsed.val.payload.creatorInboxId =
         hexToBytes(codec.options.creatorInboxId)
    /\ codec.parsed.val.payload.expiresAfterUse = codec.options.expiresAfterUse
    /\ ("verify" \in codec.did /\ codec.verifyKey = codec.options.privateKey)
         => codec.verified.ok /\ codec.verified.val
    /\ ("decrypt" \in codec.did /\ codec.decryptKey = codec.options.privateKey)
         => /\ codec.decrypted.ok
            /\ codec.decrypted.val =
                 (IF codec.options.conversationId = UpperUuid THEN LowerUuid
                  ELSE codec.options.conversationId)

\* C19: verifyInviteWithPrivateKey and verifyInvite never throw: for an
\* invite whose payload or signature was altered (changed bytes, wrong
\* length, recovery byte above 3) the answer is false, and an exception
\* while the public key is derived is answered as false as well.
C19_VerificationNeverThrows ==
  "verify" \in codec.did =>
    /\ codec.verified.ok
    /\ (codec.tampered \in SignatureTampers \/ codec.verifyKey = InvalidKey)
         => ~codec.verified.val

\* C20: once the creator inbox id in the payload of an invite is replaced
\* by a different one, verification and decryption do not both succeed,
\* whoever signs the altered payload; and decryption with another private
\* key, or with another inbox id, than the token was encrypted with fails.
C20_CreatorBindingHolds ==
  {"verify", "decrypt"} \subseteq codec.did =>
    /\ codec.tampered \in CreatorSwaps =>
         ~(codec.verified.ok /\ codec.verified.val /\ codec.decrypted.ok)
    /\ (\/ codec.decryptKey # codec.options.privateKey
        \/ codec.parsed.val.creatorInboxId # codec.options.creatorInboxId)
         => ~codec.decrypted.ok

\* the creator id was replaced and the payload signed again with the
\* minting key: the signature verifies, the token does not open
C20_Witness ==
  /\ {"verify", "decrypt"} \subseteq codec.did
  /\ codec.tampered = "creatorResigned"
  /\ codec.options.creatorInboxId = SelfInbox
  /\ codec.parsed.val.creatorInboxId = OtherCreator
  /\ codec.verifyKey = codec.options.privateKey
  /\ codec.decryptKey = codec.options.privateKey
  /\ codec.verified.ok /\ codec.verified.val
  /\ ~codec.decrypted.ok

\* C21: for every byte string x of at most 1 MiB, decompress undoes
\* compressIfSmaller, decompress(compressIfSmaller(x)) = x, and decodeFromSlug
\* therefore undoes encodeToSlug.
C21_CompressionRoundTrip ==
  ( /\ "decode" \in codec.did
    /\ length(codec.data) <= MAX_DECOMPRESSED_SIZE )
  => /\ decompress(compressIfSmaller(codec.data)) = Ok(codec.data)
     /\ codec.decoded = Ok(codec.data)

\* C22: for every metadata value m, with or without names, images, expiry
\* and image encryption key, decodeMetadata(encodeMetadata(m)) equals m and
\* getInviteTag(encodeMetadata(m)) equals m.tag.
C22_MetadataRoundTrip ==
  "decodeMetadata" \in codec.did
  => /\ codec.decodedMetadata = Ok(codec.metadata)
     /\ codec.inviteTag = Ok(codec.metadata.tag)
\* C23: parseInviteCode returns the value of ?i=, else that of ?code=, else
\* the last non-empty path segment of a URL, else the trimmed input; so
\* parseInviteSlug returns the same payload for a slug given raw, as
\* <base>?i=<slug>, as <host>/v2?code=<slug> and as convos://join/<slug>.
C23_ParseInviteCodePriority ==
  "parse" \in codec.did
  => LET input == codec.slug
         minted == createInviteSlug(codec.options)
         picked == parseInviteCode(input)
         same == /\ picked = minted.raw
                 /\ codec.parsed.ok
                 /\ codec.parsed.val.payload = parseInviteSlug(minted, now).val.payload
     IN /\ (input.url /\ input.i # EmptyCode) => picked = input.i
        /\ (input.url /\ input.i = EmptyCode /\ input.code # EmptyCode)
              => picked = input.code
        /\ (input.url /\ input.i = EmptyCode /\ input.code = EmptyCode
              /\ input.path # EmptyCode) => picked = input.path
        /\ (~input.url \/ (input.i = EmptyCode /\ input.code = EmptyCode
              /\ input.path = EmptyCode)) => picked = input.raw
        /\ (~input.url /\ codec.tampered = "no") => same
        /\ (input.url /\ input.i = minted.raw) => same
        /\ (input.url /\ input.i = EmptyCode /\ input.code = minted.raw) => same
        /\ (input.url /\ input.i = EmptyCode /\ input.code = EmptyCode
              /\ input.path = minted.raw) => same
\* a slug behind ?code=, with "v2" as the path, has been parsed
C23_Witness ==
  /\ "parse" \in codec.did
  /\ codec.slug.url
  /\ codec.slug.i = EmptyCode
  /\ codec.slug.code = createInviteSlug(codec.options).raw
  /\ codec.slug.path = lastSegment(getInviteBaseURL("dev"))
  /\ codec.parsed.ok
  /\ codec.parsed.val.payload.tag = codec.options.inviteTag
\* C24: parseInviteSlug reports an invite minted with expiresAt = t as
\* expired exactly when t, in whole seconds, is strictly less than the clock
\* in whole seconds, and one minted without expiresAt as not expired; the
\* same holds, independently, for conversationExpiresAt.
C24_ExpiredIffStrictlyBefore ==
  ( /\ "parse" \in codec.did
    /\ "create" \in codec.did
    /\ codec.tampered = "no"
    /\ codec.parsed.ok )
  => /\ codec.parsed.val.isExpired =
          ( /\ codec.options.expiresAt # NoDate
            /\ codec.options.expiresAt < codec.at )
     /\ codec.parsed.val.isConversationExpired =
          ( /\ codec.options.conversationExpiresAt # NoDate
            /\ codec.options.conversationExpiresAt < codec.at )
\* C25: the invite URL of a middleware built without inviteBaseURL starts
\* with https://dev.convos.org/v2 when the environment is dev, local or not
\* given, and with https://popup.convos.org/v2 when it is production; a
\* configured inviteBaseURL is the prefix before ?i= as given.
C25_InviteBaseFollowsEnvironment ==
  "construct" \in codec.did
  => /\ codec.slug.url
     /\ codec.slug.i # EmptyCode
     /\ codec.slug.base =
          IF codec.middleware.inviteBaseURL # Undefined
          THEN codec.middleware.inviteBaseURL
          ELSE IF codec.middleware.env = "production"
          THEN "https://popup.convos.org/v2"
          ELSE "https://dev.convos.org/v2"
C27_RotateChangesOnlyTag ==
  /\ []( "rotate" \in codec.did
         => /\ codec.rotated.profiles = codec.metadata.profiles
            /\ codec.rotated.expiresAtUnix = codec.metadata.expiresAtUnix
            /\ codec.rotated.imageEncryptionKey = codec.metadata.imageEncryptionKey
            /\ Len(codec.rotated.tag) = 10
            /\ \A i \in 1..10 : codec.rotated.tag[i] \in 0..61 )
  /\ [][ ("rotate" \in codec'.did /\ "rotate" \notin codec.did)
           => /\ codec'.metadata = codec.metadata
              /\ codec'.encoded = codec.encoded
              /\ appData' = appData ]_vars
\* a metadata value with a profile, an expiry and a key has been rotated
C27_Witness ==
  /\ "rotate" \in codec.did
  /\ codec.metadata.profiles = <<OtherProfile, OwnProfile>>
  /\ codec.metadata.expiresAtUnix = 1
  /\ codec.metadata.imageEncryptionKey = "ik"
  /\ codec.rotated.profiles = <<OtherProfile, OwnProfile>>
  /\ codec.rotated.tag = [i \in 1..10 |-> 7]
\* C28: after off("invite", h) has returned, h is not invoked for a join
\* request delivered afterwards and every other registered handler still is:
\* the dispatch invokes the handlers of the list, and off leaves no h in the
\* list and the other handlers where they were; off() for a handler that is
\* not registered changes nothing.
C28_OffStopsHandler ==
  [][ /\ \A h \in Handlers :
           Off(h) => LET Other(x) == x # h
                     IN /\ \A i \in 1..Len(inviteHandlers') : inviteHandlers'[i] # h
                        /\ SelectSeq(inviteHandlers', Other) =
                             SelectSeq(inviteHandlers, Other)
                        /\ (\A i \in 1..Len(inviteHandlers) : inviteHandlers[i] # h)
                             => inviteHandlers' = inviteHandlers
      /\ Len(calls'.handler) > Len(calls.handler)
           => \E i \in 1..Len(inviteHandlers) :
                 inviteHandlers[i] = calls'.handler[Len(calls'.handler)] ]_vars

\* ------------------------------------------------------------------- C29
\* a swallowed failure the call log shows: refreshConsentList failed, or
\* block failed, during the delivery at hand
SwallowedFailure ==
  \/ calls.refresh > 0 /\ ~calls.refreshed
  \/ calls.block # << >> /\ ~calls.blocked

\* C29: a failure of refreshConsentList, of block, or of the send of an
\* error content never leaves the middleware: after a failed refresh or
\* block the call has not failed, the message counts as handled (its
\* outcome is not "pass" and control never heads for next()) and next() is
\* not called; and whatever a send of an error content answers, the call
\* goes on without failing, handled, and without next()
C29_SwallowedFailuresStayInside ==
  /\ [](SwallowedFailure =>
         /\ pc \notin {"failed", "next"}
         /\ outcome # "pass"
         /\ calls.next = 0)
  /\ [][pc = "send" =>
         /\ pc' \notin {"failed", "next"}
         /\ outcome' = outcome
         /\ outcome # "pass"
         /\ calls'.next = 0]_vars

\* block failed after a successful refresh and the call completed
C29_Witness ==
  /\ pc = "done"
  /\ calls.block # << >>
  /\ ~calls.blocked
  /\ outcome = "block"
  /\ calls.next = 0

\* ------------------------------------------------------------------- C30
\* C30: when the lookup of the conversation fails with an exception during
\* the classification of a join request, the exception leaves the
\* middleware call: the call has failed, no invite handler was invoked,
\* nothing was sent, nobody was blocked and next() was not called
C30_LookupFailurePropagates ==
  calls.lookupThrew =>
    /\ pc = "failed"
    /\ calls.handler = << >>
    /\ calls.send = EmptyBag
    /\ calls.refresh = 0
    /\ calls.block = << >>
    /\ calls.next = 0

\* the lookup failed for a join request that passed every earlier check,
\* with a handler registered
C30_Witness ==
  /\ calls.lookupThrew
  /\ pc = "failed"
  /\ Classify(ctx.content, ctx.sender) = "lookup"
  /\ inviteHandlers # << >>

\* ------------------------------------------------------------------- C31
\* C31: whenever the addMembers call made by accept() fails, a
\* GenericFailure error is sent to the joiner on the DM: a delivery that
\* is over and in which every addMembers call failed has sent a
\* GenericFailure error with the tag of the invite
C31_FailedAddMembersSendsGenericFailure ==
  (pc = "done" /\ calls.addMembers # << >> /\ ~calls.added)
    => BagIn(createGenericFailureError(Parsed.val.payload.tag), calls.send)

\* ------------------------------------------------------------------- C32
\* the invite code of the text is a compressed stream that inflates to
\* more than MAX_DECOMPRESSED_SIZE bytes
InflatesBeyondLimit(text) ==
  LET data == parseInviteCode(text).b64
  IN /\ Len(data) = 1
     /\ data[1][1] = COMPRESSION_MARKER
     /\ data[1][2].inflated.ok
     /\ length(data[1][2].inflated.val) > MAX_DECOMPRESSED_SIZE

\* C32: a DM of another inbox whose invite data inflates to more than
\* 1 MiB is rejected by decompression and is never passed through to the
\* next middleware, as a raw slug and inside a URL alike
C32_DecompressionBombNeverPassedThrough ==
  (TextFromOther /\ InflatesBeyondLimit(DMText))
    => /\ ~decodeFromSlug(parseInviteCode(DMText)).ok
       /\ pc # "next"
       /\ outcome # "pass"
       /\ calls.next = 0

\* ------------------------------------------------------------------- C33
\* the tag is, or has been, the tag of the metadata stored in the app_data
\* of the group KnownConv
PersistedTag(tag) ==
  \/ tag \in retired
  \/ /\ appData # NoAppData
     /\ decodeMetadata(appData).ok
     /\ decodeMetadata(appData).val.tag = tag

\* C33: every invite minted for the group carries a tag that is stored in
\* the persisted metadata of the group; no minted invite carries a tag
\* that corresponds to no persisted metadata
C33_MintedTagIsPersisted ==
  \A inv \in issued : inv[1] = KnownConv => PersistedTag(inv[2])

\* ------------------------------------------------------------------- C34
\* C34: the middleware keeps no record of used invites: every delivery of
\* the same valid invite, from the same or from another sender, emits the
\* invite event, also when the invite has expiresAfterUse set and an
\* earlier delivery of it was accepted
C34_EveryDeliveryOfAValidInviteEmits ==
  (ctx.content \in ReusedContents /\ pc \notin {"idle", "lookup", "failed"})
    => /\ outcome = "invite"
       /\ calls.handler # << >>
       /\ calls.handler[1] = inviteHandlers[1]

\* an invite with expiresAfterUse is accepted again for a sender that an
\* earlier delivery of it was accepted for, and had been accepted for
\* another sender as well
C34_Witness ==
  /\ pc = "done"
  /\ Parsed.val.payload.expiresAfterUse
  /\ <<ctx.content, ctx.sender>> \in calls.earlier
  /\ \E e \in calls.earlier : e[1] = ctx.content /\ e[2] # ctx.sender
  /\ calls.added
  /\ calls.handler = inviteHandlers

\* ------------------------------------------------------------------- C35
InviteExpired(parsedInvite) ==
  parsedInvite.isExpired \/ parsedInvite.isConversationExpired

\* C35: the checks run in the order text present, sender not self, parse,
\* creator, signature, expiry, token decryption, conversation lookup, and
\* the first failing check alone decides: a DM without text or of the own
\* inbox is passed through whatever it holds; an unauthentic invite blocks
\* the sender and sends no error, expired or not; an authentic expired
\* invite sends the error and reaches no lookup, whether its token would
\* decrypt or not; an authentic unexpired invite whose token does not
\* decrypt blocks the sender; the lookup is reached by the others only
C35_FirstFailingCheckDecides ==
  pc # "idle" =>
    IF DMText.empty \/ ctx.sender = SelfInbox THEN outcome = "pass"
    ELSE IF ~Parsed.ok THEN outcome \in {"pass", "block"}
    ELSE IF ~Authentic(Parsed.val)
         THEN outcome = "block" /\ NothingSent /\ pc # "lookup"
    ELSE IF InviteExpired(Parsed.val)
         THEN /\ outcome = "error"
              /\ NobodyBlocked
              /\ pc # "lookup" /\ conversation = "none" /\ ~calls.lookupThrew
    ELSE IF ~decryptInviteConversationId(Parsed.val, SelfKey).ok
         THEN outcome = "block" /\ NothingSent /\ pc # "lookup"
    ELSE pc = "lookup" \/ calls.lookupThrew \/ outcome \in {"error", "invite"}

\* an invite that is unauthentic and expired has blocked its sender, and
\* an authentic expired invite whose token does not decrypt has been
\* answered with the error
C35_Witness ==
  /\ pc = "done"
  /\ Parsed.ok
  /\ InviteExpired(Parsed.val)
  /\ \/ ~Authentic(Parsed.val) /\ calls.blocked
     \/ /\ Authentic(Parsed.val)
        /\ ~decryptInviteConversationId(Parsed.val, SelfKey).ok
        /\ calls.send # EmptyBag

\* ------------------------------------------------------------------- C36
\* the handlers the dispatch loop has yet to invoke
Remaining == SubSeq(inviteHandlers, idx + 1, Len(inviteHandlers))

\* C36: on() and off() calls made while an invite event is dispatched do
\* not change which handlers receive it: a change of the handler list
\* between the begin and the end of the dispatch leaves the handlers
\* already invoked and the handlers yet to be invoked as they were
C36_DispatchUsesListAtStart ==
  [][ ( /\ outcome = "invite"
        /\ pc \in {"handler", "addMembers", "send"}
        /\ inviteHandlers' # inviteHandlers )
      => (calls'.handler = calls.handler /\ Remaining' = Remaining) ]_vars

\* ------------------------------------------------------------------- C37
\* C37: within a delivery block([sender]) is invoked only after
\* refreshConsentList has completed successfully, once, for the sender of
\* the DM; when the refresh fails block is not attempted, the sender stays
\* unblocked and the DM is handled all the same, without next()
C37_BlockOnlyAfterRefresh ==
  /\ (pc = "block" \/ calls.block # << >>) =>
        /\ calls.refresh = 1
        /\ calls.refreshed
        /\ calls.block \in {<< >>, <<ctx.sender>>}
  /\ (calls.refresh > 0 /\ ~calls.refreshed) =>
        /\ pc = "done"
        /\ calls.block = << >>
        /\ ~calls.blocked
        /\ outcome = "block"
        /\ calls.next = 0

\* the refresh failed for a sender that was to be blocked
C37_Witness ==
  /\ pc = "done"
  /\ outcome = "block"
  /\ calls.refresh = 1
  /\ ~calls.refreshed
  /\ calls.block = << >>

\* ------------------------------------------------------------------- C38
\* C38: concurrent createInvite and setConversationProfile calls on one
\* group lose no update: when a second call has started before the
\* updateAppData of the first completed and both have completed, the
\* app_data of the group holds the tag of every invite the two returned
\* and the profile of every setConversationProfile among them
C38_ConcurrentCallsLoseNoUpdate ==
  (group.pc = "done" /\ group.second.pc = "done") =>
    LET stored == decodeMetadata(appData)
    IN /\ appData # NoAppData
       /\ stored.ok
       /\ \A call \in {[op |-> group.op, inviteTag |-> group.inviteTag],
                        [op |-> group.second.op, inviteTag |-> group.second.inviteTag]} :
            /\ call.op = "createInvite" => stored.val.tag = call.inviteTag
            /\ call.op = "setConversationProfile" =>
                 findIndex(stored.val.profiles, SelfInbox) > 0

\* ------------------------------------------------------------------- C39
\* C39: within the delivery of one join request the joiner is never both
\* added to the conversation by a successful accept() and sent an error
\* content, whatever the handlers do
C39_NeverAddedAndSentError ==
  ~(calls.added /\ calls.send # EmptyBag)

\* ------------------------------------------------------------------- C40
\* what onJoinRequest does: absent, resolves true or false, or throws
JoinRequestDecisions == {Undefined, "true", "false", "throws"}

\* the conversations a conversationExists callback that agrees with the
\* substrate lookup answers true for
ExistingConversations ==
  [given |-> TRUE, ids |-> {id \in ConvIds : getConversationById(id) # "null"}]

\* C40: JoinRequestHandler.processMessage and the middleware put the text
\* and the sender of every DM into the same class, conversationExists
\* agreeing with the lookup: NotJoinRequest exactly when the middleware
\* passes through, BlockSender exactly when it blocks,
\* SendError(ConversationExpired) exactly when it sends that error, and
\* Success or the decision of onJoinRequest exactly when it emits the
\* invite event
C40_LegacyHandlerClassifiesAlike ==
  (pc \notin {"idle", "lookup", "failed"} /\ ctx.content # NonText) =>
    \A onJoinRequest \in JoinRequestDecisions :
      LET legacy == processMessage(DMText, ctx.sender, ExistingConversations,
                                   onJoinRequest)
          expired == /\ legacy.result = "error"
                     /\ legacy.error.errorType = "conversationExpired"
      IN /\ legacy.result = "not_join_request" <=> outcome = "pass"
         /\ legacy.result = "block" <=> outcome = "block"
         /\ expired <=> outcome = "error"
         /\ (legacy.result = "success" \/ (legacy.result = "error" /\ ~expired))
              <=> outcome = "invite"

====
